---- MODULE Spec2Model ----
(***************************************************************************)
(* Botie voice agent: the bridge between a Twilio media stream and a       *)
(* Deepgram agent connection.                                              *)
(*                                                                         *)
(*   Spec / FairSpec   src/server.js: one media connection (the closure    *)
(*                     of wss.on('connection')), the /twiml webhook and    *)
(*                     the three process-wide maps.                        *)
(*   SpecPW            src/unnamed/part_001, lines 1-479: the pre-warmed   *)
(*                     variant (forceInvokeDeepgram / cleanupConnection).  *)
(*                                                                         *)
(*   SpecMC            src/server.js again: two calls at once, each with   *)
(*                     its webhook and its media connection, sharing the   *)
(*                     three maps; the audio relay is left out.            *)
(*                                                                         *)
(*   SpecAC            src/unnamed/part_000: the activeCalls variant, whose  *)
(*                     `start` handler awaits the account lookup before    *)
(*                     it creates the agent.                               *)
(*   SpecExtract       the JSON extraction of the 'close' handler of       *)
(*                     src/server.js, applied to bounded response texts.   *)
(*   SpecAuth          validateApiKeyAuth and generateAuthHeaders of       *)
(*                     src/server.js, applied to bounded sets of headers   *)
(*                     and clock readings.                                 *)
(*                                                                         *)
(* Node runs every handler to completion (or to its next await), so one    *)
(* action is one handler run, or one segment of an async handler between   *)
(* two awaits.                                                             *)
(***************************************************************************)
EXTENDS Naturals, Sequences, FiniteSets, TLC

\* ------------------------------------------------------------------ bounds
MaxMedia == 3   \* inbound `media` frames per media connection
MaxStart == 2   \* inbound `start` frames per media connection
MaxAudio == 2   \* Audio events per agent connection
MaxText  == 2   \* ConversationText events per agent connection
MaxInvoke == 2  \* /twiml requests of the pre-warmed variant
MaxCallText == 1 \* ConversationText events per connection when two calls run
MaxMalformed == 1 \* malformed frames per media connection
MaxTokens == 5   \* length of a summarization response text, in tokens
MaxKeepAlive == 1 \* ticks of the keep-alive timer per agent connection

\* How many events of each kind the environment delivers in one behaviour.
\* A behaviour exercises the inbound relay, the outbound relay or the
\* conversation and its teardown in depth, and the other kinds of event at
\* most once.
Budgets ==
  { [media |-> MaxMedia, start |-> 1, audio |-> 0, text |-> 1, webhook |-> 0,
     malformed |-> MaxMalformed, tick |-> 0],
    [media |-> 0, start |-> MaxStart, audio |-> MaxAudio, text |-> 0, webhook |-> 0,
     malformed |-> MaxMalformed, tick |-> 0],
    [media |-> 1, start |-> 1, audio |-> 1, text |-> MaxText, webhook |-> 1,
     malformed |-> 0, tick |-> MaxKeepAlive] }

\* The same for the pre-warmed variant.
BudgetsPW ==
  { [media |-> MaxMedia, start |-> MaxStart, audio |-> MaxAudio, text |-> 0, webhook |-> 1,
     malformed |-> 0, tick |-> 0],
    [media |-> 1, start |-> 1, audio |-> 1, text |-> MaxText, webhook |-> MaxInvoke,
     malformed |-> 0, tick |-> 0] }

\* With two calls at once every connection gets its webhook, its `start`
\* frame and MaxCallText turns.
BudgetsMC ==
  { [media |-> 0, start |-> 1, audio |-> 0, text |-> MaxCallText, webhook |-> 1,
     malformed |-> 0, tick |-> 0] }

\* The activeCalls variant: one call with its webhook, its `start` frame,
\* media before and after the lookup, and one malformed frame.
BudgetsAC ==
  { [media |-> MaxMedia, start |-> 1, audio |-> 1, text |-> 1, webhook |-> 1,
     malformed |-> MaxMalformed, tick |-> 0] }

\* ------------------------------------------------------------------ values
NULL == "null"
UNDEFINED == "undefined"
\* JavaScript truthiness of a string-or-null value
Truthy(v) == v \notin {NULL, UNDEFINED, ""}

CallSids    == {"CA1"}
\* the streamSid of the k-th `start` frame of a connection
StreamSidOf(k) == IF k = 1 THEN "MZ1" ELSE IF k = 2 THEN "MZ2" ELSE "MZ3"
\* the ConversationText events the agent can emit: <<role, content>>
\* the sentence the prompt tells the agent to close with
ClosingSentence ==
  "Thanks, we've got your job request. Someone will be in touch shortly. Goodbye! BYE"
Utterances  == {<<"assistant", "BYE">>, <<"assistant", "Hi">>, <<"user", "BYE">>,
                <<"assistant", ClosingSentence>>}
CalledNumber == "+61399999999"
CallerNumber == "+61400000001"

\* What the account lookup can resolve to: a tradie record with a routing
\* number ("T1"), one without ("T2"), or null (HTTP error, network error).
Tradies == {"T1", "T2"}
LookupResults == Tradies \cup {NULL}

\* tradieData?.data?.twilioPhoneNumber || tradieData?.twilioPhoneNumber
TwilioPhoneNumber(t) == IF t = "T1" THEN CalledNumber ELSE ""

\* base64 payloads and the bytes they stand for: a one-byte buffer b is the
\* four characters whose first two carry b's bits; the table lists the
\* buffers the model feeds in
Base64Table ==
  { <<"QQ==", <<65>> >>, <<"Qg==", <<66>> >>, <<"Qw==", <<67>> >>,
    <<"RA==", <<68>> >>, <<"RQ==", <<69>> >> }
\* Buffer.from(payload, 'base64')
Base64Decode(p) ==
  IF \E e \in Base64Table : e[1] = p
    THEN (CHOOSE e \in Base64Table : e[1] = p)[2] ELSE <<>>
\* Buffer.from(chunk).toString('base64')
Base64Encode(b) ==
  IF \E e \in Base64Table : e[2] = b
    THEN (CHOOSE e \in Base64Table : e[2] = b)[1] ELSE ""

\* The k-th inbound media frame of a connection carries its own payload, and
\* the k-th Audio event its own chunk, so that a lost, repeated or reordered
\* chunk shows.
PayloadOf(k) ==
  IF k = 1 THEN "QQ==" ELSE IF k = 2 THEN "Qg==" ELSE IF k = 3 THEN "Qw=="
  ELSE IF k = 4 THEN "RA==" ELSE "RQ=="
ChunkOf(k) == <<64 + k>>

\* Buffer.concat over a list of buffers
RECURSIVE Concat(_)
Concat(bufs) == IF bufs = <<>> THEN <<>> ELSE Head(bufs) \o Concat(Tail(bufs))

\* ------------------------------------------------------------------ state
VARIABLES
  budget,               \* the behaviour's event budget, fixed by Init
  \* src/server.js, process-wide
  tempTradieData, callSidToPhone, callSidToCaller,
  webhookPc,            \* position of app.post('/twiml') per CallSid
  \* src/server.js, closure of one media connection
  audioBuffer, keepAliveInterval, streamSid, isAgentReady, tradieData,
  conversationHistory, callSid, callerPhoneNumber,
  wsState,              \* wsTwilio.readyState
  closePc,              \* position of the async 'close' handler
  dgState,              \* the agent connection: live, disconnecting, closed
  dgError,              \* first Error event: none, preWelcome, postWelcome
  \* what the handlers did, in call order
  received,             \* decoded inbound payloads, concatenated
  agentSent,            \* arguments of connection.send
  audioEmitted,         \* chunks of the agent's Audio events
  twilioSent,           \* frames passed to wsTwilio.send on an OPEN socket
  summaryRequests,      \* conversation texts posted to the summarizer
  taskSubmissions,      \* calls of sendTaskToAPI
  disconnectCalls,      \* calls of connection.disconnect
  closeCalls,           \* calls of wsTwilio.close
  activeTimers,         \* setInterval timers not yet cleared
  nMedia, nStart, nText,
  byeDetected,          \* an assistant "BYE" has been handled
  historyAtBye,         \* conversationHistory when it was
  bargeAt,              \* Len(twilioSent) when the caller spoke over the agent, 0: never
  agentConfig,          \* the argument of the last connection.configure
  teardownLog,          \* the steps the 'close' handler has taken, in order
  lookupCalls,          \* calls of getTradieData
  nMalformed,           \* malformed frames the message handler has been given
  summaryOutcome,       \* how the summarization went: none, pending, failed, noTask, task
  taskResult,           \* how sendTaskToAPI went: none, pending, created, failed
  textArrived,          \* the ConversationText events, <<role, content>>, as they arrived
  keepAliveCalls,       \* calls of connection.keepAlive
  \* src/unnamed/part_001 (pre-warmed variant), process-wide
  pwTempTradieData,     \* CallSid -> the invocation whose connectionData is stored, 0: none
  pwCallSidToPhone, pwCallSidToCaller,
  pwInvoked,            \* calls of forceInvokeDeepgram so far
  pwConn,               \* per invocation, its agent connection: none, connecting,
                        \* ready, disconnecting, closed
  pwData,               \* per invocation, the connectionData its Welcome built
  pwListeners,          \* per invocation, forwarding Audio listeners added by `start`
  pwTimer,              \* per invocation, its keep-alive timer is running
  \* src/unnamed/part_001, closure of one media connection
  pwStreamSid, pwCallSid, pwConnectionData, pwWsState,
  \* what the handlers did
  pwAgentSent,          \* per invocation, arguments of connection.send
  pwDisconnects,        \* per invocation, calls of connection.disconnect
  pwReceived,           \* decoded payloads of the media frames received after `start`
  pwAudioEmitted,       \* chunks of Audio events
  pwTwilioSent,         \* frames passed to wsTwilio.send
  pwSummaryRequests,    \* conversation texts posted by processConversationData
  pwSummaryPending,     \* summarization requests not yet settled
  pwTaskSubmissions,
  pwNMedia, pwNStart, pwNText,
  \* src/server.js with two calls, process-wide
  mcTempTradieData, mcCallSidToPhone, mcCallSidToCaller,
  mcWebhookPc,          \* position of app.post('/twiml') per call
  mcStored,             \* what /twiml stored for the call, NULL: nothing
  \* src/server.js with two calls, per media connection
  mcStreamSid, mcIsAgentReady, mcKeepAliveInterval, mcTradieData,
  mcConversationHistory, mcCallSid, mcCallerPhoneNumber,
  mcWsState, mcClosePc,
  mcSummaryRequests, mcTaskSubmissions, mcDisconnectCalls, mcNText,
  \* src/unnamed/part_000 (activeCalls variant), process-wide
  acActiveCalls,        \* CallSid -> its entry, AcNoEntry: none
  acCallSidToPhone, acCallSidToCaller,
  acUnhandledRejections, \* rejected promises of the async message handler
  \* src/unnamed/part_000, closure of one media connection
  acCallSid,
  acStartPc,            \* the async `start` branch: idle, lookup, done
  acWsState,
  \* src/unnamed/part_000, closure of createDeepgramAgent
  acAgent,              \* none, created, welcomed, disconnected
  acTradie,             \* what getTradieData resolved to
  acConversation,
  \* what the handlers did
  acAgentSent,          \* arguments of agent.send
  acReceived,           \* decoded payloads of the media frames received after `start`
  acAudioEmitted, acTwilioSent, acSummaryRequests, acDisconnectCalls,
  acNMedia, acNText, acNMalformed,
  \* the JSON extraction
  exPc,                 \* input: the response text is at hand; done: extraction ran
  exText,               \* the response text, a sequence of tokens
  exTask,               \* the extracted task, NoTask: none
  \* validateApiKeyAuth / generateAuthHeaders of src/server.js
  auPc,                 \* idle: no request; input: headers at hand; done: validated
  auNow,                \* Date.now(), in milliseconds
  auHeaders,            \* x-api-key, x-timestamp, x-signature of the request
  auOrigin,             \* none, received (any sender), generated (generateAuthHeaders)
  auIssuedAt,           \* Date.now() when generateAuthHeaders ran
  auResult              \* what validateApiKeyAuth returned

srvVars == <<tempTradieData, callSidToPhone, callSidToCaller, webhookPc,
             audioBuffer, keepAliveInterval, streamSid, isAgentReady, tradieData,
             conversationHistory, callSid, callerPhoneNumber, wsState, closePc,
             dgState, dgError, received, agentSent, audioEmitted, twilioSent,
             summaryRequests, taskSubmissions, disconnectCalls, closeCalls,
             activeTimers, nMedia, nStart, nText, byeDetected, historyAtBye,
             bargeAt, agentConfig, teardownLog, lookupCalls, nMalformed,
             summaryOutcome, taskResult, textArrived, keepAliveCalls>>

pwVars == <<pwTempTradieData, pwCallSidToPhone, pwCallSidToCaller, pwInvoked, pwConn,
            pwData, pwListeners, pwTimer, pwStreamSid, pwCallSid, pwConnectionData,
            pwWsState, pwAgentSent, pwDisconnects, pwReceived, pwAudioEmitted,
            pwTwilioSent, pwSummaryRequests, pwSummaryPending, pwTaskSubmissions,
            pwNMedia, pwNStart, pwNText>>

mcVars == <<mcTempTradieData, mcCallSidToPhone, mcCallSidToCaller, mcWebhookPc,
            mcStored, mcStreamSid, mcIsAgentReady, mcKeepAliveInterval, mcTradieData,
            mcConversationHistory, mcCallSid, mcCallerPhoneNumber, mcWsState,
            mcClosePc, mcSummaryRequests, mcTaskSubmissions, mcDisconnectCalls,
            mcNText>>

acVars == <<acActiveCalls, acCallSidToPhone, acCallSidToCaller,
            acUnhandledRejections, acCallSid, acStartPc, acWsState, acAgent, acTradie,
            acConversation, acAgentSent, acReceived, acAudioEmitted, acTwilioSent,
            acSummaryRequests, acDisconnectCalls, acNMedia, acNText, acNMalformed>>

exVars == <<exPc, exText, exTask>>

auVars == <<auPc, auNow, auHeaders, auOrigin, auIssuedAt, auResult>>

vars == <<budget, srvVars, pwVars, mcVars, acVars, exVars, auVars>>

\* activeCalls.get(callSid) is undefined
AcNoEntry == [present |-> FALSE, streamSid |-> NULL]

\* no task extracted
NoTask == <<>>

InitACVars ==
  /\ acActiveCalls = [c \in CallSids |-> AcNoEntry]
  /\ acCallSidToPhone = [c \in CallSids |-> NULL]
  /\ acCallSidToCaller = [c \in CallSids |-> NULL]
  /\ acUnhandledRejections = 0
  /\ acCallSid = NULL
  /\ acStartPc = "idle"
  /\ acWsState = "OPEN"
  /\ acAgent = "none"
  /\ acTradie = NULL
  /\ acConversation = <<>>
  /\ acAgentSent = <<>>
  /\ acReceived = <<>>
  /\ acAudioEmitted = <<>>
  /\ acTwilioSent = <<>>
  /\ acSummaryRequests = <<>>
  /\ acDisconnectCalls = 0
  /\ acNMedia = 0
  /\ acNText = 0
  /\ acNMalformed = 0

\* No summarization response is being looked at.
InitEXVars ==
  /\ exPc = "done"
  /\ exText = <<>>
  /\ exTask = NoTask

\* a header of a request: absent, or present with a value (a sequence of
\* characters, <<>> for the empty string)
Absent == [present |-> FALSE, value |-> <<>>]
Header(v) == [present |-> TRUE, value |-> v]
NoHeaders == [apiKey |-> Absent, timestamp |-> Absent, signature |-> Absent]
\* validateApiKeyAuth has not returned
NoResult == [valid |-> FALSE, error |-> "none"]
\* the clock when the model starts
Epoch == 1000000

\* No request is being authenticated.
InitAUVars ==
  /\ auPc = "off"
  /\ auNow = Epoch
  /\ auHeaders = NoHeaders
  /\ auOrigin = "none"
  /\ auIssuedAt = 0
  /\ auResult = NoResult

\* Two calls at once: media connection 1 carries call CA1 and connection 2
\* call CA2; they are to different numbers and from different callers.
Calls == {"CA1", "CA2"}
Conns == {1, 2}
CallOf(i) == IF i = 1 THEN "CA1" ELSE "CA2"
TradieOf(c) == IF c = "CA1" THEN "T1" ELSE "T2"
CalledOf(c) == IF c = "CA1" THEN "+61399999999" ELSE "+61388888888"
CallerOf(c) == IF c = "CA1" THEN "+61400000001" ELSE "+61400000002"
\* streamSid of the `start` frame of connection i
McStreamSidOf(i) == IF i = 1 THEN "MZ1" ELSE "MZ2"
\* the turns the agent emits when two calls run
McUtterances == {<<"assistant", "BYE">>, <<"user", "Hi">>}

InitMCVars ==
  /\ mcTempTradieData = [c \in Calls |-> NULL]
  /\ mcCallSidToPhone = [c \in Calls |-> NULL]
  /\ mcCallSidToCaller = [c \in Calls |-> NULL]
  /\ mcWebhookPc = [c \in Calls |-> "idle"]
  /\ mcStored = [c \in Calls |-> NULL]
  /\ mcStreamSid = [i \in Conns |-> NULL]
  /\ mcIsAgentReady = [i \in Conns |-> FALSE]
  /\ mcKeepAliveInterval = [i \in Conns |-> FALSE]
  /\ mcTradieData = [i \in Conns |-> NULL]
  /\ mcConversationHistory = [i \in Conns |-> <<>>]
  /\ mcCallSid = [i \in Conns |-> NULL]
  /\ mcCallerPhoneNumber = [i \in Conns |-> NULL]
  /\ mcWsState = [i \in Conns |-> "OPEN"]
  /\ mcClosePc = [i \in Conns |-> "idle"]
  /\ mcSummaryRequests = [i \in Conns |-> <<>>]
  /\ mcTaskSubmissions = [i \in Conns |-> 0]
  /\ mcDisconnectCalls = [i \in Conns |-> 0]
  /\ mcNText = [i \in Conns |-> 0]

Invocations == 1..MaxInvoke

\* connection.configure has not been called
NoConfig == [greeting |-> "", prompt |-> ""]


\* No connectionData object yet.
NoData ==
  [isReady |-> FALSE, audioBuffer |-> <<>>, conversationHistory |-> <<>>,
   keepAliveInterval |-> FALSE, callSid |-> NULL, phoneNumber |-> "",
   callerPhoneNumber |-> ""]

InitPWVars ==
  /\ pwTempTradieData = [c \in CallSids |-> 0]
  /\ pwCallSidToPhone = [c \in CallSids |-> NULL]
  /\ pwCallSidToCaller = [c \in CallSids |-> NULL]
  /\ pwInvoked = 0
  /\ pwConn = [k \in Invocations |-> "none"]
  /\ pwData = [k \in Invocations |-> NoData]
  /\ pwListeners = [k \in Invocations |-> 0]
  /\ pwTimer = [k \in Invocations |-> FALSE]
  /\ pwStreamSid = NULL
  /\ pwCallSid = NULL
  /\ pwConnectionData = 0
  /\ pwWsState = "OPEN"
  /\ pwAgentSent = [k \in Invocations |-> <<>>]
  /\ pwDisconnects = [k \in Invocations |-> 0]
  /\ pwReceived = <<>>
  /\ pwAudioEmitted = <<>>
  /\ pwTwilioSent = <<>>
  /\ pwSummaryRequests = <<>>
  /\ pwSummaryPending = 0
  /\ pwTaskSubmissions = 0
  /\ pwNMedia = 0
  /\ pwNStart = 0
  /\ pwNText = 0

InitServerVars ==
  /\ tempTradieData = [c \in CallSids |-> NULL]
  /\ callSidToPhone = [c \in CallSids |-> NULL]
  /\ callSidToCaller = [c \in CallSids |-> NULL]
  /\ webhookPc = [c \in CallSids |-> "idle"]
  /\ audioBuffer = <<>>
  /\ keepAliveInterval = FALSE
  /\ streamSid = NULL
  /\ isAgentReady = FALSE
  /\ tradieData = NULL
  /\ conversationHistory = <<>>
  /\ callSid = NULL
  /\ callerPhoneNumber = NULL
  /\ wsState = "OPEN"
  /\ closePc = "idle"
  /\ dgState = "live"
  /\ dgError = "none"
  /\ received = <<>>
  /\ agentSent = <<>>
  /\ audioEmitted = <<>>
  /\ twilioSent = <<>>
  /\ summaryRequests = <<>>
  /\ taskSubmissions = 0
  /\ disconnectCalls = 0
  /\ closeCalls = 0
  /\ activeTimers = 0
  /\ nMedia = 0
  /\ nStart = 0
  /\ nText = 0
  /\ byeDetected = FALSE
  /\ historyAtBye = <<>>
  /\ bargeAt = 0
  /\ agentConfig = NoConfig
  /\ teardownLog = <<>>
  /\ lookupCalls = 0
  /\ nMalformed = 0
  /\ summaryOutcome = "none"
  /\ taskResult = "none"
  /\ textArrived = <<>>
  /\ keepAliveCalls = 0

\* ------------------------------------------------------------------ /twiml
\* app.post('/twiml') up to `await getTradieData(phoneNumber)`.  The webhook
\* of a call comes before its media stream: Twilio opens the stream on the
\* routing document the webhook returns.
WebhookRequest(c) ==
  /\ budget.webhook > 0
  /\ webhookPc[c] = "idle"
  /\ nStart = 0
  /\ webhookPc' = [webhookPc EXCEPT ![c] = "lookup"]
  /\ lookupCalls' = lookupCalls + 1
  /\ UNCHANGED <<auVars, exVars, acVars, mcVars, pwVars, budget, keepAliveCalls, nMalformed, summaryOutcome, taskResult, textArrived, agentConfig, teardownLog, tempTradieData, callSidToPhone, callSidToCaller,
                 audioBuffer, keepAliveInterval, streamSid, isAgentReady, tradieData,
                 conversationHistory, callSid, callerPhoneNumber, wsState, closePc,
                 dgState, dgError, received, agentSent, audioEmitted, twilioSent,
                 summaryRequests, taskSubmissions, disconnectCalls, closeCalls,
                 activeTimers, nMedia, nStart, nText, byeDetected, historyAtBye,
                 bargeAt>>

\* getTradieData settles with r (null on any failure); the handler stores the
\* data under the CallSid when there is some and sends the routing document.
WebhookLookupDone(c, r) ==
  /\ webhookPc[c] = "lookup"
  /\ webhookPc' = [webhookPc EXCEPT ![c] = "done"]
  /\ IF r # NULL
       THEN /\ tempTradieData' = [tempTradieData EXCEPT ![c] = r]
            /\ callSidToPhone' = [callSidToPhone EXCEPT ![c] = CalledNumber]
            /\ callSidToCaller' = [callSidToCaller EXCEPT ![c] = CallerNumber]
       ELSE UNCHANGED <<tempTradieData, callSidToPhone, callSidToCaller>>
  /\ UNCHANGED <<auVars, exVars, acVars, mcVars, pwVars, budget, keepAliveCalls, nMalformed, summaryOutcome, taskResult, textArrived, agentConfig, teardownLog, lookupCalls, audioBuffer, keepAliveInterval, streamSid, isAgentReady, tradieData,
                 conversationHistory, callSid, callerPhoneNumber, wsState, closePc,
                 dgState, dgError, received, agentSent, audioEmitted, twilioSent,
                 summaryRequests, taskSubmissions, disconnectCalls, closeCalls,
                 activeTimers, nMedia, nStart, nText, byeDetected, historyAtBye,
                 bargeAt>>

\* ------------------------------------------------------------------ agent events
\* The object the Welcome handler passes to connection.configure: a literal,
\* the same for every call (the audio, listen and speak settings are left
\* out, greeting and prompt are the fields a call could be told apart by).
DefaultConfig ==
  [greeting |-> "Hi. How can I help you today?",
   prompt |-> "You are Botie, a friendly Australian CSR."]

\* The agent connection delivers events until its socket has closed; Welcome
\* is the first event of a connection and comes once.
AgentDelivers == dgState # "closed"

\* OnWelcome with the flush left out: the buffer is cleared, never sent.
OnWelcomeDropsBuffer ==
  /\ AgentDelivers
  /\ ~isAgentReady
  /\ isAgentReady' = TRUE
  /\ audioBuffer' = <<>>
  /\ agentConfig' = DefaultConfig
  /\ keepAliveInterval' = TRUE
  /\ activeTimers' = activeTimers + 1
  /\ UNCHANGED <<auVars, exVars, acVars, mcVars, pwVars, budget, keepAliveCalls, nMalformed, summaryOutcome, taskResult, textArrived, teardownLog, lookupCalls, tempTradieData, callSidToPhone, callSidToCaller,
                 webhookPc, streamSid, tradieData, conversationHistory, callSid,
                 callerPhoneNumber, wsState, closePc, dgState, dgError, received,
                 agentSent, audioEmitted, twilioSent, summaryRequests,
                 taskSubmissions, disconnectCalls, closeCalls, nMedia, nStart, nText,
                 byeDetected, historyAtBye, bargeAt>>

\* OnWelcome that sends the buffer and does not clear it.
OnWelcomeKeepsBuffer ==
  /\ AgentDelivers
  /\ ~isAgentReady
  /\ isAgentReady' = TRUE
  /\ IF Len(audioBuffer) > 0
       THEN /\ agentSent' = Append(agentSent, audioBuffer)
            /\ UNCHANGED audioBuffer
       ELSE UNCHANGED <<agentSent, audioBuffer>>
  /\ agentConfig' = DefaultConfig
  /\ keepAliveInterval' = TRUE
  /\ activeTimers' = activeTimers + 1
  /\ UNCHANGED <<auVars, exVars, acVars, mcVars, pwVars, budget, keepAliveCalls, nMalformed, summaryOutcome, taskResult, textArrived, teardownLog, lookupCalls, tempTradieData, callSidToPhone, callSidToCaller, webhookPc,
                 streamSid, tradieData, conversationHistory, callSid,
                 callerPhoneNumber, wsState, closePc, dgState, dgError, received,
                 audioEmitted, twilioSent, summaryRequests, taskSubmissions,
                 disconnectCalls, closeCalls, nMedia, nStart, nText, byeDetected,
                 historyAtBye, bargeAt>>

\* connection.on(AgentEvents.Welcome): configure, set ready, flush the buffer
\* in one send, start the keep-alive timer.
OnWelcome ==
  /\ AgentDelivers
  /\ ~isAgentReady
  /\ isAgentReady' = TRUE
  /\ IF Len(audioBuffer) > 0
       THEN /\ agentSent' = Append(agentSent, audioBuffer)
            /\ audioBuffer' = <<>>
       ELSE UNCHANGED <<agentSent, audioBuffer>>
  /\ agentConfig' = DefaultConfig
  /\ keepAliveInterval' = TRUE
  /\ activeTimers' = activeTimers + 1
  /\ UNCHANGED <<auVars, exVars, acVars, mcVars, pwVars, budget, keepAliveCalls, nMalformed, summaryOutcome, taskResult, textArrived, teardownLog, lookupCalls, tempTradieData, callSidToPhone, callSidToCaller, webhookPc,
                 streamSid, tradieData, conversationHistory, callSid,
                 callerPhoneNumber, wsState, closePc, dgState, dgError, received,
                 audioEmitted, twilioSent, summaryRequests, taskSubmissions,
                 disconnectCalls, closeCalls, nMedia, nStart, nText, byeDetected,
                 historyAtBye, bargeAt>>

\* The frame the Audio handler builds for a chunk.
MediaFrame(sid, chunk) ==
  [event |-> "media", streamSid |-> sid, payload |-> Base64Encode(chunk)]

\* OnAudio without the test of streamSid: every chunk is framed and sent.
OnAudioSendsBeforeStart(chunk) ==
  /\ AgentDelivers
  /\ isAgentReady
  /\ Len(audioEmitted) < budget.audio
  /\ audioEmitted' = Append(audioEmitted, chunk)
  /\ IF wsState = "OPEN"
       THEN twilioSent' = Append(twilioSent, MediaFrame(streamSid, chunk))
       ELSE UNCHANGED twilioSent
  /\ UNCHANGED <<auVars, exVars, acVars, mcVars, pwVars, budget, keepAliveCalls, nMalformed, summaryOutcome, taskResult, textArrived, agentConfig, teardownLog, lookupCalls, tempTradieData, callSidToPhone, callSidToCaller, webhookPc,
                 audioBuffer, keepAliveInterval, streamSid, isAgentReady, tradieData,
                 conversationHistory, callSid, callerPhoneNumber, wsState, closePc,
                 dgState, dgError, received, agentSent, summaryRequests,
                 taskSubmissions, disconnectCalls, closeCalls, activeTimers, nMedia,
                 nStart, nText, byeDetected, historyAtBye, bargeAt>>

\* connection.on(AgentEvents.Audio): forwarded when streamSid is set, and
\* otherwise nothing is done with the chunk.  wsTwilio.send on a socket that
\* is no longer OPEN delivers nothing.
OnAudio(chunk) ==
  /\ AgentDelivers
  /\ isAgentReady
  /\ Len(audioEmitted) < budget.audio
  /\ audioEmitted' = Append(audioEmitted, chunk)
  /\ IF Truthy(streamSid) /\ wsState = "OPEN"
       THEN twilioSent' = Append(twilioSent, MediaFrame(streamSid, chunk))
       ELSE UNCHANGED twilioSent
  /\ UNCHANGED <<auVars, exVars, acVars, mcVars, pwVars, budget, keepAliveCalls, nMalformed, summaryOutcome, taskResult, textArrived, agentConfig, teardownLog, lookupCalls, tempTradieData, callSidToPhone, callSidToCaller, webhookPc,
                 audioBuffer, keepAliveInterval, streamSid, isAgentReady, tradieData,
                 conversationHistory, callSid, callerPhoneNumber, wsState, closePc,
                 dgState, dgError, received, agentSent, summaryRequests,
                 taskSubmissions, disconnectCalls, closeCalls, activeTimers, nMedia,
                 nStart, nText, byeDetected, historyAtBye, bargeAt>>

\* connection.on(AgentEvents.Error): logs.
OnError ==
  /\ AgentDelivers
  /\ dgError = "none"
  /\ dgError' = IF isAgentReady THEN "postWelcome" ELSE "preWelcome"
  /\ UNCHANGED <<auVars, exVars, acVars, mcVars, pwVars, budget, keepAliveCalls, nMalformed, summaryOutcome, taskResult, textArrived, agentConfig, teardownLog, lookupCalls, tempTradieData, callSidToPhone, callSidToCaller, webhookPc,
                 audioBuffer, keepAliveInterval, streamSid, isAgentReady, tradieData,
                 conversationHistory, callSid, callerPhoneNumber, wsState, closePc,
                 dgState, received, agentSent, audioEmitted, twilioSent,
                 summaryRequests, taskSubmissions, disconnectCalls, closeCalls,
                 activeTimers, nMedia, nStart, nText, byeDetected, historyAtBye,
                 bargeAt>>

\* The agent reports that the caller started speaking while its audio is
\* being played.  src/server.js registers no listener for it (its listeners
\* are Welcome, Audio, Error and ConversationText), so no handler runs.
OnUserStartedSpeaking ==
  /\ AgentDelivers
  /\ isAgentReady
  /\ bargeAt = 0
  /\ Len(twilioSent) > 0
  /\ twilioSent[Len(twilioSent)].event = "media"
  /\ bargeAt' = Len(twilioSent)
  /\ UNCHANGED <<auVars, exVars, acVars, mcVars, pwVars, budget, keepAliveCalls, nMalformed, summaryOutcome, taskResult, textArrived, agentConfig, teardownLog, lookupCalls, tempTradieData, callSidToPhone, callSidToCaller, webhookPc,
                 audioBuffer, keepAliveInterval, streamSid, isAgentReady, tradieData,
                 conversationHistory, callSid, callerPhoneNumber, wsState, closePc,
                 dgState, dgError, received, agentSent, audioEmitted, twilioSent,
                 summaryRequests, taskSubmissions, disconnectCalls, closeCalls,
                 activeTimers, nMedia, nStart, nText, byeDetected, historyAtBye>>

IsBye(role, content) == role = "assistant" /\ content = "BYE"

\* OnConversationText without the readyState test: every assistant "BYE"
\* calls wsTwilio.close().
OnConversationTextAlwaysCloses(role, content) ==
  /\ AgentDelivers
  /\ isAgentReady
  /\ nText < budget.text
  /\ nText' = nText + 1
  /\ textArrived' = Append(textArrived, <<role, content>>)
  /\ conversationHistory' =
       Append(conversationHistory,
              [role |-> role, content |-> content, timestamp |-> nText + 1])
  /\ IF IsBye(role, content)
       THEN /\ byeDetected' = TRUE
            /\ historyAtBye' = IF byeDetected THEN historyAtBye
                                              ELSE conversationHistory'
            /\ wsState' = IF wsState = "OPEN" THEN "CLOSING" ELSE wsState
            /\ closeCalls' = closeCalls + 1
       ELSE UNCHANGED <<byeDetected, historyAtBye, wsState, closeCalls>>
  /\ UNCHANGED <<auVars, exVars, acVars, mcVars, pwVars, budget, keepAliveCalls, nMalformed, summaryOutcome, taskResult, agentConfig, teardownLog, lookupCalls,
                 tempTradieData, callSidToPhone, callSidToCaller, webhookPc,
                 audioBuffer, keepAliveInterval, streamSid, isAgentReady, tradieData,
                 callSid, callerPhoneNumber, closePc, dgState, dgError, received,
                 agentSent, audioEmitted, twilioSent, summaryRequests,
                 taskSubmissions, disconnectCalls, activeTimers, nMedia, nStart,
                 bargeAt>>

\* OnConversationText that puts the turn at the front of the history.
OnConversationTextPrepends(role, content) ==
  /\ AgentDelivers
  /\ isAgentReady
  /\ nText < budget.text
  /\ nText' = nText + 1
  /\ textArrived' = Append(textArrived, <<role, content>>)
  /\ conversationHistory' =
       <<[role |-> role, content |-> content, timestamp |-> nText + 1]>>
         \o conversationHistory
  /\ IF IsBye(role, content)
       THEN /\ byeDetected' = TRUE
            /\ historyAtBye' = IF byeDetected THEN historyAtBye
                                              ELSE conversationHistory'
            /\ IF wsState = "OPEN"
                 THEN /\ wsState' = "CLOSING"
                      /\ closeCalls' = closeCalls + 1
                 ELSE UNCHANGED <<wsState, closeCalls>>
       ELSE UNCHANGED <<byeDetected, historyAtBye, wsState, closeCalls>>
  /\ UNCHANGED <<auVars, exVars, acVars, mcVars, pwVars, budget, keepAliveCalls, nMalformed, summaryOutcome, taskResult, agentConfig, teardownLog, lookupCalls, tempTradieData, callSidToPhone, callSidToCaller, webhookPc,
                 audioBuffer, keepAliveInterval, streamSid, isAgentReady, tradieData,
                 callSid, callerPhoneNumber, closePc, dgState, dgError, received,
                 agentSent, audioEmitted, twilioSent, summaryRequests,
                 taskSubmissions, disconnectCalls, activeTimers, nMedia, nStart,
                 bargeAt>>

\* OnConversationText without the test of the role: a "BYE" of either
\* party closes the telephony socket.
OnConversationTextAnyRole(role, content) ==
  /\ AgentDelivers
  /\ isAgentReady
  /\ nText < budget.text
  /\ nText' = nText + 1
  /\ textArrived' = Append(textArrived, <<role, content>>)
  /\ conversationHistory' =
       Append(conversationHistory,
              [role |-> role, content |-> content, timestamp |-> nText + 1])
  /\ IF content = "BYE"
       THEN /\ byeDetected' = TRUE
            /\ historyAtBye' = IF byeDetected THEN historyAtBye
                                              ELSE conversationHistory'
            /\ IF wsState = "OPEN"
                 THEN /\ wsState' = "CLOSING"
                      /\ closeCalls' = closeCalls + 1
                 ELSE UNCHANGED <<wsState, closeCalls>>
       ELSE UNCHANGED <<byeDetected, historyAtBye, wsState, closeCalls>>
  /\ UNCHANGED <<auVars, exVars, acVars, mcVars, pwVars, budget, keepAliveCalls, nMalformed, summaryOutcome, taskResult, agentConfig, teardownLog, lookupCalls, tempTradieData, callSidToPhone, callSidToCaller, webhookPc,
                 audioBuffer, keepAliveInterval, streamSid, isAgentReady, tradieData,
                 callSid, callerPhoneNumber, closePc, dgState, dgError, received,
                 agentSent, audioEmitted, twilioSent, summaryRequests,
                 taskSubmissions, disconnectCalls, activeTimers, nMedia, nStart,
                 bargeAt>>

\* connection.on(AgentEvents.ConversationText): append the turn; on an
\* assistant "BYE" close the telephony socket if it is OPEN.
OnConversationText(role, content) ==
  /\ AgentDelivers
  /\ isAgentReady
  /\ nText < budget.text
  /\ nText' = nText + 1
  /\ textArrived' = Append(textArrived, <<role, content>>)
  /\ conversationHistory' =
       Append(conversationHistory,
              [role |-> role, content |-> content, timestamp |-> nText + 1])
  /\ IF IsBye(role, content)
       THEN /\ byeDetected' = TRUE
            /\ historyAtBye' = IF byeDetected THEN historyAtBye
                                              ELSE conversationHistory'
            /\ IF wsState = "OPEN"
                 THEN /\ wsState' = "CLOSING"
                      /\ closeCalls' = closeCalls + 1
                 ELSE UNCHANGED <<wsState, closeCalls>>
       ELSE UNCHANGED <<byeDetected, historyAtBye, wsState, closeCalls>>
  /\ UNCHANGED <<auVars, exVars, acVars, mcVars, pwVars, budget, keepAliveCalls, nMalformed, summaryOutcome, taskResult, agentConfig, teardownLog, lookupCalls, tempTradieData, callSidToPhone, callSidToCaller, webhookPc,
                 audioBuffer, keepAliveInterval, streamSid, isAgentReady, tradieData,
                 callSid, callerPhoneNumber, closePc, dgState, dgError, received,
                 agentSent, audioEmitted, twilioSent, summaryRequests,
                 taskSubmissions, disconnectCalls, activeTimers, nMedia, nStart,
                 bargeAt>>

\* The agent socket finishes closing after connection.disconnect().
AgentSocketClosed ==
  /\ dgState = "disconnecting"
  /\ dgState' = "closed"
  /\ UNCHANGED <<auVars, exVars, acVars, mcVars, pwVars, budget, keepAliveCalls, nMalformed, summaryOutcome, taskResult, textArrived, agentConfig, teardownLog, lookupCalls, tempTradieData, callSidToPhone, callSidToCaller, webhookPc,
                 audioBuffer, keepAliveInterval, streamSid, isAgentReady, tradieData,
                 conversationHistory, callSid, callerPhoneNumber, wsState, closePc,
                 dgError, received, agentSent, audioEmitted, twilioSent,
                 summaryRequests, taskSubmissions, disconnectCalls, closeCalls,
                 activeTimers, nMedia, nStart, nText, byeDetected, historyAtBye,
                 bargeAt>>

\* The callback of the keep-alive timer (line 171) runs every five seconds
\* for as long as the timer has not been cleared: connection.keepAlive().
KeepAliveTick ==
  /\ activeTimers > 0
  /\ keepAliveCalls < budget.tick
  /\ keepAliveCalls' = keepAliveCalls + 1
  /\ UNCHANGED <<auVars, exVars, acVars, mcVars, pwVars, budget, nMalformed,
                 summaryOutcome, taskResult, textArrived, agentConfig, teardownLog,
                 lookupCalls, tempTradieData, callSidToPhone, callSidToCaller,
                 webhookPc, audioBuffer, keepAliveInterval, streamSid, isAgentReady,
                 tradieData, conversationHistory, callSid, callerPhoneNumber, wsState,
                 closePc, dgState, dgError, received, agentSent, audioEmitted,
                 twilioSent, summaryRequests, taskSubmissions, disconnectCalls,
                 closeCalls, activeTimers, nMedia, nStart, nText, byeDetected,
                 historyAtBye, bargeAt>>

\* ------------------------------------------------------------------ telephony
\* The telephony socket delivers frames until its 'close' event, also while
\* it is CLOSING after wsTwilio.close().
TwilioDelivers == wsState \in {"OPEN", "CLOSING"}

\* wsTwilio.on('message'), msg.event === 'media'
OnMedia(p) ==
  /\ TwilioDelivers
  /\ nMedia < budget.media
  /\ nMedia' = nMedia + 1
  /\ received' = received \o Base64Decode(p)
  /\ IF isAgentReady
       THEN /\ agentSent' = Append(agentSent, Base64Decode(p))
            /\ UNCHANGED audioBuffer
       ELSE /\ audioBuffer' = audioBuffer \o Base64Decode(p)
            /\ UNCHANGED agentSent
  /\ UNCHANGED <<auVars, exVars, acVars, mcVars, pwVars, budget, keepAliveCalls, nMalformed, summaryOutcome, taskResult, textArrived, agentConfig, teardownLog, lookupCalls, tempTradieData, callSidToPhone, callSidToCaller, webhookPc,
                 keepAliveInterval, streamSid, isAgentReady, tradieData,
                 conversationHistory, callSid, callerPhoneNumber, wsState, closePc,
                 dgState, dgError, audioEmitted, twilioSent, summaryRequests,
                 taskSubmissions, disconnectCalls, closeCalls, activeTimers, nStart,
                 nText, byeDetected, historyAtBye, bargeAt>>

\* OnStart that gives up on a call without tradie data: it closes the
\* telephony socket.
OnStartRejectsUnknownCall(c, s) ==
  /\ TwilioDelivers
  /\ webhookPc[c] # "lookup"
  /\ nStart < budget.start
  /\ nStart' = nStart + 1
  /\ streamSid' = s
  /\ callSid' = c
  /\ IF tempTradieData[c] # NULL
       THEN /\ tradieData' = tempTradieData[c]
            /\ callerPhoneNumber' = callSidToCaller[c]
            /\ UNCHANGED <<wsState, closeCalls>>
       ELSE /\ wsState' = "CLOSING"
            /\ closeCalls' = closeCalls + 1
            /\ UNCHANGED <<tradieData, callerPhoneNumber>>
  /\ UNCHANGED <<auVars, exVars, acVars, mcVars, pwVars, budget, keepAliveCalls, nMalformed, summaryOutcome, taskResult, textArrived, agentConfig, teardownLog, lookupCalls,
                 tempTradieData, callSidToPhone, callSidToCaller, webhookPc,
                 audioBuffer, keepAliveInterval, isAgentReady, conversationHistory,
                 closePc, dgState, dgError, received, agentSent,
                 audioEmitted, twilioSent, summaryRequests, taskSubmissions,
                 disconnectCalls, activeTimers, nMedia, nText,
                 byeDetected, historyAtBye, bargeAt>>

\* wsTwilio.on('message'), msg.event === 'start'
OnStart(c, s) ==
  /\ TwilioDelivers
  /\ webhookPc[c] # "lookup"
  /\ nStart < budget.start
  /\ nStart' = nStart + 1
  /\ streamSid' = s
  /\ callSid' = c
  /\ IF tempTradieData[c] # NULL
       THEN /\ tradieData' = tempTradieData[c]
            /\ callerPhoneNumber' = callSidToCaller[c]
       ELSE UNCHANGED <<tradieData, callerPhoneNumber>>
  /\ UNCHANGED <<auVars, exVars, acVars, mcVars, pwVars, budget, keepAliveCalls, nMalformed, summaryOutcome, taskResult, textArrived, agentConfig, teardownLog, lookupCalls, tempTradieData, callSidToPhone, callSidToCaller, webhookPc,
                 audioBuffer, keepAliveInterval, isAgentReady, conversationHistory,
                 wsState, closePc, dgState, dgError, received, agentSent,
                 audioEmitted, twilioSent, summaryRequests, taskSubmissions,
                 disconnectCalls, closeCalls, activeTimers, nMedia, nText,
                 byeDetected, historyAtBye, bargeAt>>

\* Frames the message handler cannot use: text that is not JSON, a `media`
\* frame without its media object or without media.payload, a `start` frame
\* without its start object, and a `start` frame whose start object has
\* neither streamSid nor callSid.
MalformedFrames ==
  {"unparseable", "mediaWithoutMedia", "mediaWithoutPayload", "startWithoutStart",
   "startWithoutSids"}

\* wsTwilio.on('message') given a malformed frame.  JSON.parse, reading
\* msg.media.payload or msg.start.streamSid of a missing object, and
\* Buffer.from(undefined, 'base64') throw before any assignment or send, and
\* the catch logs.  A start object without the two ids throws nothing: the
\* assignments of lines 219-220 run and store undefined, and the lookup is
\* skipped because callSid is falsy.
OnMalformedFrame(kind) ==
  /\ TwilioDelivers
  /\ nMalformed < budget.malformed
  /\ nMalformed' = nMalformed + 1
  /\ IF kind = "startWithoutSids"
       THEN /\ streamSid' = UNDEFINED
            /\ callSid' = UNDEFINED
       ELSE UNCHANGED <<streamSid, callSid>>
  /\ UNCHANGED <<auVars, exVars, acVars, mcVars, pwVars, budget, keepAliveCalls, summaryOutcome, taskResult, textArrived,
                 agentConfig, teardownLog, lookupCalls, tempTradieData,
                 callSidToPhone, callSidToCaller, webhookPc, audioBuffer,
                 keepAliveInterval, isAgentReady, tradieData, conversationHistory,
                 callerPhoneNumber, wsState, closePc, dgState, dgError, received,
                 agentSent, audioEmitted, twilioSent, summaryRequests,
                 taskSubmissions, disconnectCalls, closeCalls, activeTimers, nMedia,
                 nStart, nText, byeDetected, historyAtBye, bargeAt>>

\* conversationHistory.map(entry => `${entry.role}: ${entry.content}`).join('\n')
ConversationTextOf(history) ==
  [i \in 1..Len(history) |-> <<history[i].role, history[i].content>>]

\* The tail of the 'close' handler (lines 328-347): drop the call's registry
\* entries, clear the keep-alive timer, disconnect the agent.
Cleanup ==
  /\ IF Truthy(callSid)
       THEN /\ tempTradieData' = [tempTradieData EXCEPT ![callSid] = NULL]
            /\ callSidToPhone' = [callSidToPhone EXCEPT ![callSid] = NULL]
            /\ callSidToCaller' = [callSidToCaller EXCEPT ![callSid] = NULL]
       ELSE UNCHANGED <<tempTradieData, callSidToPhone, callSidToCaller>>
  /\ IF keepAliveInterval
       THEN /\ activeTimers' = activeTimers - 1
            /\ keepAliveInterval' = FALSE
       ELSE UNCHANGED <<activeTimers, keepAliveInterval>>
  /\ disconnectCalls' = disconnectCalls + 1
  /\ dgState' = IF dgState = "live" THEN "disconnecting" ELSE dgState
  /\ teardownLog' = teardownLog
                       \o (IF Truthy(callSid) THEN <<"registry">> ELSE <<>>)
                       \o (IF keepAliveInterval THEN <<"timer">> ELSE <<>>)
                       \o <<"disconnect">>

\* OnClose without the test of tradieData: any transcript is summarized.
OnCloseSummarizesWithoutTradie ==
  /\ TwilioDelivers
  /\ closePc = "idle"
  /\ wsState' = "CLOSED"
  /\ IF Len(conversationHistory) > 0
       THEN /\ summaryRequests' =
                 Append(summaryRequests, ConversationTextOf(conversationHistory))
            /\ closePc' = "awaitFetch"
            /\ teardownLog' = Append(teardownLog, "summarize")
            /\ UNCHANGED <<tempTradieData, callSidToPhone, callSidToCaller,
                           activeTimers, keepAliveInterval, disconnectCalls, dgState>>
       ELSE /\ Cleanup
            /\ closePc' = "done"
            /\ UNCHANGED summaryRequests
  /\ summaryOutcome' = IF Len(conversationHistory) > 0 THEN "pending" ELSE "none"
  /\ UNCHANGED <<auVars, exVars, acVars, mcVars, pwVars, budget, keepAliveCalls, nMalformed, taskResult, textArrived, agentConfig, lookupCalls, webhookPc, audioBuffer, streamSid, isAgentReady, tradieData,
                 conversationHistory, callSid, callerPhoneNumber, dgError, received,
                 agentSent, audioEmitted, twilioSent, taskSubmissions, closeCalls,
                 nMedia, nStart, nText, byeDetected, historyAtBye, bargeAt>>

\* wsTwilio.on('close') up to its first await: with a transcript and tradie
\* data it posts the summarization request and waits for the response,
\* otherwise it goes straight to the cleanup.
OnClose ==
  /\ TwilioDelivers
  /\ closePc = "idle"
  /\ wsState' = "CLOSED"
  /\ IF Len(conversationHistory) > 0 /\ tradieData # NULL
       THEN /\ summaryRequests' =
                 Append(summaryRequests, ConversationTextOf(conversationHistory))
            /\ closePc' = "awaitFetch"
            /\ teardownLog' = Append(teardownLog, "summarize")
            /\ UNCHANGED <<tempTradieData, callSidToPhone, callSidToCaller,
                           activeTimers, keepAliveInterval, disconnectCalls, dgState>>
       ELSE /\ Cleanup
            /\ closePc' = "done"
            /\ UNCHANGED summaryRequests
  /\ summaryOutcome' = IF Len(conversationHistory) > 0 /\ tradieData # NULL
                         THEN "pending" ELSE "none"
  /\ UNCHANGED <<auVars, exVars, acVars, mcVars, pwVars, budget, keepAliveCalls, nMalformed, taskResult, textArrived, agentConfig, lookupCalls, webhookPc, audioBuffer, streamSid, isAgentReady, tradieData,
                 conversationHistory, callSid, callerPhoneNumber, dgError, received,
                 agentSent, audioEmitted, twilioSent, taskSubmissions, closeCalls,
                 nMedia, nStart, nText, byeDetected, historyAtBye, bargeAt>>

\* OnSummaryResponse whose failure ends the handler without the cleanup.
OnSummaryResponseFailureSkipsCleanup(ok) ==
  /\ closePc = "awaitFetch"
  /\ IF ok
       THEN /\ closePc' = "awaitJson"
            /\ UNCHANGED <<teardownLog, tempTradieData, callSidToPhone, callSidToCaller,
                           activeTimers, keepAliveInterval, disconnectCalls, dgState>>
       ELSE /\ closePc' = "done"
            /\ UNCHANGED <<teardownLog, tempTradieData, callSidToPhone, callSidToCaller,
                           activeTimers, keepAliveInterval, disconnectCalls, dgState>>
  /\ summaryOutcome' = IF ok THEN summaryOutcome ELSE "failed"
  /\ UNCHANGED <<auVars, exVars, acVars, mcVars, pwVars, budget, keepAliveCalls, nMalformed, taskResult, textArrived, agentConfig, lookupCalls, webhookPc, audioBuffer, streamSid, isAgentReady, tradieData,
                 conversationHistory, callSid, callerPhoneNumber, wsState, dgError,
                 received, agentSent, audioEmitted, twilioSent, summaryRequests,
                 taskSubmissions, closeCalls, nMedia, nStart, nText, byeDetected,
                 historyAtBye, bargeAt>>

\* The summarization fetch settles: a response that is ok goes on to read the
\* body; a rejected fetch or a non-ok status lands in the catch and then the
\* cleanup.
OnSummaryResponse(ok) ==
  /\ closePc = "awaitFetch"
  /\ IF ok
       THEN /\ closePc' = "awaitJson"
            /\ UNCHANGED <<teardownLog, tempTradieData, callSidToPhone, callSidToCaller,
                           activeTimers, keepAliveInterval, disconnectCalls, dgState>>
       ELSE /\ Cleanup
            /\ closePc' = "done"
  /\ summaryOutcome' = IF ok THEN summaryOutcome ELSE "failed"
  /\ UNCHANGED <<auVars, exVars, acVars, mcVars, pwVars, budget, keepAliveCalls, nMalformed, taskResult, textArrived, agentConfig, lookupCalls, webhookPc, audioBuffer, streamSid, isAgentReady, tradieData,
                 conversationHistory, callSid, callerPhoneNumber, wsState, dgError,
                 received, agentSent, audioEmitted, twilioSent, summaryRequests,
                 taskSubmissions, closeCalls, nMedia, nStart, nText, byeDetected,
                 historyAtBye, bargeAt>>

\* The response body settles: with a task parsed out of it the task is
\* submitted when the tradie data has a routing number; then the cleanup.
OnSummaryBody(parsed) ==
  /\ closePc = "awaitJson"
  /\ closePc' = "done"
  /\ taskSubmissions' =
       IF parsed /\ TwilioPhoneNumber(tradieData) # ""
         THEN taskSubmissions + 1 ELSE taskSubmissions
  /\ Cleanup
  /\ summaryOutcome' = IF parsed THEN "task" ELSE "noTask"
  /\ taskResult' = IF parsed /\ TwilioPhoneNumber(tradieData) # "" THEN "pending" ELSE taskResult
  /\ UNCHANGED <<auVars, exVars, acVars, mcVars, pwVars, budget, keepAliveCalls, nMalformed, textArrived, agentConfig, lookupCalls, webhookPc, audioBuffer, streamSid, isAgentReady, tradieData,
                 conversationHistory, callSid, callerPhoneNumber, wsState, dgError,
                 received, agentSent, audioEmitted, twilioSent, summaryRequests,
                 closeCalls, nMedia, nStart, nText, byeDetected, historyAtBye,
                 bargeAt>>

\* sendTaskToAPI settles: with the created task, or with null after a
\* rejected request or a non-ok status; the then-callback logs either way.
OnTaskResult(ok) ==
  /\ taskResult = "pending"
  /\ taskResult' = IF ok THEN "created" ELSE "failed"
  /\ UNCHANGED <<auVars, exVars, acVars, mcVars, pwVars, budget, keepAliveCalls, nMalformed, summaryOutcome, textArrived,
                 agentConfig, teardownLog, lookupCalls, tempTradieData,
                 callSidToPhone, callSidToCaller, webhookPc, audioBuffer,
                 keepAliveInterval, streamSid, isAgentReady, tradieData,
                 conversationHistory, callSid, callerPhoneNumber, wsState, closePc,
                 dgState, dgError, received, agentSent, audioEmitted, twilioSent,
                 summaryRequests, taskSubmissions, disconnectCalls, closeCalls,
                 activeTimers, nMedia, nStart, nText, byeDetected, historyAtBye,
                 bargeAt>>

\* ------------------------------------------------------------------ pre-warmed variant
\* app.post('/twiml') of src/unnamed/part_001: record the numbers, call
\* forceInvokeDeepgram (which creates an agent connection and registers its
\* Welcome and Error listeners) and send the routing document.
PwWebhook(c) ==
  /\ pwInvoked < budget.webhook
  /\ pwInvoked' = pwInvoked + 1
  /\ pwCallSidToPhone' = [pwCallSidToPhone EXCEPT ![c] = CalledNumber]
  /\ pwCallSidToCaller' = [pwCallSidToCaller EXCEPT ![c] = CallerNumber]
  /\ pwConn' = [pwConn EXCEPT ![pwInvoked + 1] = "connecting"]
  /\ pwData' = [pwData EXCEPT ![pwInvoked + 1] =
                  [NoData EXCEPT !.callSid = c, !.phoneNumber = CalledNumber,
                                 !.callerPhoneNumber = CallerNumber]]
  /\ UNCHANGED <<auVars, exVars, acVars, mcVars, budget, srvVars, pwTempTradieData, pwListeners, pwTimer, pwStreamSid,
                 pwCallSid, pwConnectionData, pwWsState, pwAgentSent, pwDisconnects,
                 pwReceived, pwAudioEmitted, pwTwilioSent, pwSummaryRequests,
                 pwSummaryPending, pwTaskSubmissions, pwNMedia, pwNStart, pwNText>>

\* The Welcome listener of invocation k: configure, build connectionData
\* (isReady: true, empty buffer and history), start the keep-alive timer,
\* register the Audio, Error and ConversationText listeners and store
\* connectionData under the CallSid.
PwWelcome(k) ==
  /\ pwConn[k] = "connecting"
  /\ pwConn' = [pwConn EXCEPT ![k] = "ready"]
  /\ pwData' = [pwData EXCEPT ![k].isReady = TRUE, ![k].keepAliveInterval = TRUE]
  /\ pwTimer' = [pwTimer EXCEPT ![k] = TRUE]
  /\ pwTempTradieData' = [pwTempTradieData EXCEPT ![pwData[k].callSid] = k]
  /\ UNCHANGED <<auVars, exVars, acVars, mcVars, budget, srvVars, pwCallSidToPhone, pwCallSidToCaller, pwInvoked,
                 pwListeners, pwStreamSid, pwCallSid, pwConnectionData, pwWsState,
                 pwAgentSent, pwDisconnects, pwReceived, pwAudioEmitted, pwTwilioSent,
                 pwSummaryRequests, pwSummaryPending, pwTaskSubmissions, pwNMedia,
                 pwNStart, pwNText>>

\* A welcomed connection delivers events until its socket has closed.
PwDelivers(k) == pwConn[k] \in {"ready", "disconnecting"}

\* n copies of the frame f, one per listener
Copies(n, f) == [i \in 1..n |-> f]

\* An Audio event of invocation k.  The listener registered in Welcome only
\* logs; each listener a `start` frame added sends the chunk to the
\* telephony socket when streamSid is set and the socket is OPEN.
PwAudio(k, chunk) ==
  /\ PwDelivers(k)
  /\ Len(pwAudioEmitted) < budget.audio
  /\ pwAudioEmitted' = Append(pwAudioEmitted, chunk)
  /\ IF pwStreamSid # NULL /\ pwWsState = "OPEN"
       THEN pwTwilioSent' =
              pwTwilioSent \o Copies(pwListeners[k], MediaFrame(pwStreamSid, chunk))
       ELSE UNCHANGED pwTwilioSent
  /\ UNCHANGED <<auVars, exVars, acVars, mcVars, budget, srvVars, pwTempTradieData, pwCallSidToPhone, pwCallSidToCaller,
                 pwInvoked, pwConn, pwData, pwListeners, pwTimer, pwStreamSid,
                 pwCallSid, pwConnectionData, pwWsState, pwAgentSent, pwDisconnects,
                 pwReceived, pwSummaryRequests, pwSummaryPending, pwTaskSubmissions,
                 pwNMedia, pwNStart, pwNText>>

\* cleanupConnection(connectionData of invocation k), given the history it
\* finds: clear the timer, disconnect, post the summarization request when
\* the history is not empty, delete the CallSid's entries.
PwCleanup(k, history) ==
  /\ pwTimer' = [pwTimer EXCEPT ![k] = FALSE]
  /\ pwDisconnects' = [pwDisconnects EXCEPT ![k] = @ + 1]
  /\ pwConn' = [pwConn EXCEPT ![k] = IF @ = "ready" THEN "disconnecting" ELSE @]
  /\ IF Len(history) > 0
       THEN /\ pwSummaryRequests' =
                 Append(pwSummaryRequests, ConversationTextOf(history))
            /\ pwSummaryPending' = pwSummaryPending + 1
       ELSE UNCHANGED <<pwSummaryRequests, pwSummaryPending>>
  /\ pwTempTradieData' = [pwTempTradieData EXCEPT ![pwData[k].callSid] = 0]
  /\ pwCallSidToPhone' = [pwCallSidToPhone EXCEPT ![pwData[k].callSid] = NULL]
  /\ pwCallSidToCaller' = [pwCallSidToCaller EXCEPT ![pwData[k].callSid] = NULL]

\* The ConversationText listener of invocation k: append the turn, and on an
\* assistant "BYE" call cleanupConnection.
PwConversationText(k, role, content) ==
  /\ PwDelivers(k)
  /\ pwNText < budget.text
  /\ pwNText' = pwNText + 1
  /\ LET history == Append(pwData[k].conversationHistory,
                           [role |-> role, content |-> content,
                            timestamp |-> pwNText + 1])
     IN  /\ pwData' = [pwData EXCEPT ![k].conversationHistory = history]
         /\ IF IsBye(role, content)
              THEN PwCleanup(k, history)
              ELSE UNCHANGED <<pwTimer, pwDisconnects, pwConn, pwSummaryRequests,
                               pwSummaryPending, pwTempTradieData, pwCallSidToPhone,
                               pwCallSidToCaller>>
  /\ UNCHANGED <<auVars, exVars, acVars, mcVars, budget, srvVars, pwInvoked, pwListeners, pwStreamSid, pwCallSid,
                 pwConnectionData, pwWsState, pwAgentSent, pwReceived, pwAudioEmitted,
                 pwTwilioSent, pwTaskSubmissions, pwNMedia, pwNStart>>

\* The agent socket of invocation k finishes closing after disconnect().
PwAgentSocketClosed(k) ==
  /\ pwConn[k] = "disconnecting"
  /\ pwConn' = [pwConn EXCEPT ![k] = "closed"]
  /\ UNCHANGED <<auVars, exVars, acVars, mcVars, budget, srvVars, pwTempTradieData, pwCallSidToPhone, pwCallSidToCaller,
                 pwInvoked, pwData, pwListeners, pwTimer, pwStreamSid, pwCallSid,
                 pwConnectionData, pwWsState, pwAgentSent, pwDisconnects, pwReceived,
                 pwAudioEmitted, pwTwilioSent, pwSummaryRequests, pwSummaryPending,
                 pwTaskSubmissions, pwNMedia, pwNStart, pwNText>>

\* A summarization request of processConversationData settles; a parsed
\* task is submitted when connectionData has a phone number.
PwSummarySettled(parsed) ==
  /\ pwSummaryPending > 0
  /\ pwSummaryPending' = pwSummaryPending - 1
  /\ pwTaskSubmissions' =
       IF parsed /\ CalledNumber # "" THEN pwTaskSubmissions + 1 ELSE pwTaskSubmissions
  /\ UNCHANGED <<auVars, exVars, acVars, mcVars, budget, srvVars, pwTempTradieData, pwCallSidToPhone, pwCallSidToCaller,
                 pwInvoked, pwConn, pwData, pwListeners, pwTimer, pwStreamSid,
                 pwCallSid, pwConnectionData, pwWsState, pwAgentSent, pwDisconnects,
                 pwReceived, pwAudioEmitted, pwTwilioSent, pwSummaryRequests,
                 pwNMedia, pwNStart, pwNText>>

\* wsTwilio.on('message'), msg.event === 'media': with a CallSid that has
\* connectionData stored, send to its connection when it is ready and buffer
\* otherwise; without, nothing is done with the frame.
PwMedia(p) ==
  /\ pwWsState = "OPEN"
  /\ pwNMedia < budget.media
  /\ pwNMedia' = pwNMedia + 1
  /\ pwReceived' = IF pwNStart > 0 THEN pwReceived \o Base64Decode(p) ELSE pwReceived
  /\ IF pwCallSid # NULL /\ pwTempTradieData[pwCallSid] # 0
       THEN LET k == pwTempTradieData[pwCallSid]
            IN  /\ pwConnectionData' = k
                /\ IF pwData[k].isReady
                     THEN /\ pwAgentSent' =
                               [pwAgentSent EXCEPT ![k] = Append(@, Base64Decode(p))]
                          /\ UNCHANGED pwData
                     ELSE /\ pwData' =
                               [pwData EXCEPT ![k].audioBuffer = @ \o Base64Decode(p)]
                          /\ UNCHANGED pwAgentSent
       ELSE UNCHANGED <<pwConnectionData, pwAgentSent, pwData>>
  /\ UNCHANGED <<auVars, exVars, acVars, mcVars, budget, srvVars, pwTempTradieData, pwCallSidToPhone, pwCallSidToCaller,
                 pwInvoked, pwConn, pwListeners, pwTimer, pwStreamSid, pwCallSid,
                 pwWsState, pwDisconnects, pwAudioEmitted, pwTwilioSent,
                 pwSummaryRequests, pwSummaryPending, pwTaskSubmissions, pwNStart,
                 pwNText>>

\* wsTwilio.on('message'), msg.event === 'start': with connectionData stored
\* for the CallSid, flush its buffer when it is ready and add an Audio
\* listener that forwards to this socket.
PwStart(c, s) ==
  /\ pwWsState = "OPEN"
  /\ pwNStart < budget.start
  /\ pwNStart' = pwNStart + 1
  /\ pwStreamSid' = s
  /\ pwCallSid' = c
  /\ IF pwTempTradieData[c] # 0
       THEN LET k == pwTempTradieData[c]
            IN  /\ pwConnectionData' = k
                /\ IF Len(pwData[k].audioBuffer) > 0 /\ pwData[k].isReady
                     THEN /\ pwAgentSent' =
                               [pwAgentSent EXCEPT ![k] = Append(@, pwData[k].audioBuffer)]
                          /\ pwData' = [pwData EXCEPT ![k].audioBuffer = <<>>]
                     ELSE UNCHANGED <<pwAgentSent, pwData>>
                /\ pwListeners' = [pwListeners EXCEPT ![k] = @ + 1]
       ELSE UNCHANGED <<pwConnectionData, pwAgentSent, pwData, pwListeners>>
  /\ UNCHANGED <<auVars, exVars, acVars, mcVars, budget, srvVars, pwTempTradieData, pwCallSidToPhone, pwCallSidToCaller,
                 pwInvoked, pwConn, pwTimer, pwWsState, pwDisconnects, pwReceived,
                 pwAudioEmitted, pwTwilioSent, pwSummaryRequests, pwSummaryPending,
                 pwTaskSubmissions, pwNMedia, pwNText>>

\* wsTwilio.on('close'): cleanupConnection when a CallSid and connectionData
\* are at hand.
PwClose ==
  /\ pwWsState = "OPEN"
  /\ pwWsState' = "CLOSED"
  /\ IF pwCallSid # NULL /\ pwConnectionData # 0
       THEN PwCleanup(pwConnectionData, pwData[pwConnectionData].conversationHistory)
       ELSE UNCHANGED <<pwTimer, pwDisconnects, pwConn, pwSummaryRequests,
                        pwSummaryPending, pwTempTradieData, pwCallSidToPhone,
                        pwCallSidToCaller>>
  /\ UNCHANGED <<auVars, exVars, acVars, mcVars, budget, srvVars, pwInvoked, pwData, pwListeners, pwStreamSid,
                 pwCallSid, pwConnectionData, pwAgentSent, pwReceived, pwAudioEmitted,
                 pwTwilioSent, pwTaskSubmissions, pwNMedia, pwNStart, pwNText>>

\* ------------------------------------------------------------------ two calls at once
\* app.post('/twiml') for call c up to `await getTradieData(phoneNumber)`
McWebhookRequest(c) ==
  /\ budget.webhook > 0
  /\ mcWebhookPc[c] = "idle"
  /\ mcWebhookPc' = [mcWebhookPc EXCEPT ![c] = "lookup"]
  /\ UNCHANGED <<auVars, exVars, acVars, budget, srvVars, pwVars, mcTempTradieData, mcCallSidToPhone,
                 mcCallSidToCaller, mcStored, mcStreamSid, mcIsAgentReady,
                 mcKeepAliveInterval, mcTradieData, mcConversationHistory, mcCallSid,
                 mcCallerPhoneNumber, mcWsState, mcClosePc, mcSummaryRequests,
                 mcTaskSubmissions, mcDisconnectCalls, mcNText>>

\* getTradieData settles with r; data is stored under the CallSid when there
\* is some, and the routing document is sent.
McWebhookLookupDone(c, r) ==
  /\ mcWebhookPc[c] = "lookup"
  /\ mcWebhookPc' = [mcWebhookPc EXCEPT ![c] = "done"]
  /\ mcStored' = [mcStored EXCEPT ![c] = r]
  /\ IF r # NULL
       THEN /\ mcTempTradieData' = [mcTempTradieData EXCEPT ![c] = r]
            /\ mcCallSidToPhone' = [mcCallSidToPhone EXCEPT ![c] = CalledOf(c)]
            /\ mcCallSidToCaller' = [mcCallSidToCaller EXCEPT ![c] = CallerOf(c)]
       ELSE UNCHANGED <<mcTempTradieData, mcCallSidToPhone, mcCallSidToCaller>>
  /\ UNCHANGED <<auVars, exVars, acVars, budget, srvVars, pwVars, mcStreamSid, mcIsAgentReady,
                 mcKeepAliveInterval, mcTradieData, mcConversationHistory, mcCallSid,
                 mcCallerPhoneNumber, mcWsState, mcClosePc, mcSummaryRequests,
                 mcTaskSubmissions, mcDisconnectCalls, mcNText>>

\* connection.on(AgentEvents.Welcome) of connection i; no media frame is
\* delivered here, so there is no buffer to flush.
McOnWelcome(i) ==
  /\ ~mcIsAgentReady[i]
  /\ mcDisconnectCalls[i] = 0
  /\ mcIsAgentReady' = [mcIsAgentReady EXCEPT ![i] = TRUE]
  /\ mcKeepAliveInterval' = [mcKeepAliveInterval EXCEPT ![i] = TRUE]
  /\ UNCHANGED <<auVars, exVars, acVars, budget, srvVars, pwVars, mcTempTradieData, mcCallSidToPhone,
                 mcCallSidToCaller, mcWebhookPc, mcStored, mcStreamSid, mcTradieData,
                 mcConversationHistory, mcCallSid, mcCallerPhoneNumber, mcWsState,
                 mcClosePc, mcSummaryRequests, mcTaskSubmissions, mcDisconnectCalls,
                 mcNText>>

\* connection.on(AgentEvents.ConversationText) of connection i
McOnConversationText(i, role, content) ==
  /\ mcIsAgentReady[i]
  /\ mcNText[i] < budget.text
  /\ mcNText' = [mcNText EXCEPT ![i] = @ + 1]
  /\ mcConversationHistory' =
       [mcConversationHistory EXCEPT ![i] =
          Append(@, [role |-> role, content |-> content, timestamp |-> mcNText[i] + 1])]
  /\ IF IsBye(role, content) /\ mcWsState[i] = "OPEN"
       THEN mcWsState' = [mcWsState EXCEPT ![i] = "CLOSING"]
       ELSE UNCHANGED mcWsState
  /\ UNCHANGED <<auVars, exVars, acVars, budget, srvVars, pwVars, mcTempTradieData, mcCallSidToPhone,
                 mcCallSidToCaller, mcWebhookPc, mcStored, mcStreamSid, mcIsAgentReady,
                 mcKeepAliveInterval, mcTradieData, mcCallSid, mcCallerPhoneNumber,
                 mcClosePc, mcSummaryRequests, mcTaskSubmissions, mcDisconnectCalls>>

\* McOnStart that takes the tradie data of whichever call has some stored,
\* not of the frame's CallSid.
McOnStartReadsAnyEntry(i, c, s) ==
  /\ mcWsState[i] \in {"OPEN", "CLOSING"}
  /\ mcWebhookPc[c] = "done"
  /\ mcStreamSid[i] = NULL
  /\ mcStreamSid' = [mcStreamSid EXCEPT ![i] = s]
  /\ mcCallSid' = [mcCallSid EXCEPT ![i] = c]
  /\ IF \E d \in Calls : mcTempTradieData[d] # NULL
       THEN \E d \in Calls :
              /\ mcTempTradieData[d] # NULL
              /\ mcTradieData' = [mcTradieData EXCEPT ![i] = mcTempTradieData[d]]
              /\ mcCallerPhoneNumber' =
                   [mcCallerPhoneNumber EXCEPT ![i] = mcCallSidToCaller[d]]
       ELSE UNCHANGED <<mcTradieData, mcCallerPhoneNumber>>
  /\ UNCHANGED <<auVars, exVars, acVars, budget, srvVars, pwVars, mcTempTradieData, mcCallSidToPhone,
                 mcCallSidToCaller, mcWebhookPc, mcStored, mcIsAgentReady,
                 mcKeepAliveInterval, mcConversationHistory, mcWsState, mcClosePc,
                 mcSummaryRequests, mcTaskSubmissions, mcDisconnectCalls, mcNText>>

\* wsTwilio.on('message'), msg.event === 'start', on connection i.  Twilio
\* opens the stream on the routing document, so the call's webhook has
\* answered; a connection gets one `start` frame here.
McOnStart(i, c, s) ==
  /\ mcWsState[i] \in {"OPEN", "CLOSING"}
  /\ mcWebhookPc[c] = "done"
  /\ mcStreamSid[i] = NULL
  /\ mcStreamSid' = [mcStreamSid EXCEPT ![i] = s]
  /\ mcCallSid' = [mcCallSid EXCEPT ![i] = c]
  /\ IF mcTempTradieData[c] # NULL
       THEN /\ mcTradieData' = [mcTradieData EXCEPT ![i] = mcTempTradieData[c]]
            /\ mcCallerPhoneNumber' =
                 [mcCallerPhoneNumber EXCEPT ![i] = mcCallSidToCaller[c]]
       ELSE UNCHANGED <<mcTradieData, mcCallerPhoneNumber>>
  /\ UNCHANGED <<auVars, exVars, acVars, budget, srvVars, pwVars, mcTempTradieData, mcCallSidToPhone,
                 mcCallSidToCaller, mcWebhookPc, mcStored, mcIsAgentReady,
                 mcKeepAliveInterval, mcConversationHistory, mcWsState, mcClosePc,
                 mcSummaryRequests, mcTaskSubmissions, mcDisconnectCalls, mcNText>>

\* The tail of the 'close' handler of connection i (lines 328-347).
McCleanup(i) ==
  /\ IF mcCallSid[i] # NULL
       THEN /\ mcTempTradieData' = [mcTempTradieData EXCEPT ![mcCallSid[i]] = NULL]
            /\ mcCallSidToPhone' = [mcCallSidToPhone EXCEPT ![mcCallSid[i]] = NULL]
            /\ mcCallSidToCaller' = [mcCallSidToCaller EXCEPT ![mcCallSid[i]] = NULL]
       ELSE UNCHANGED <<mcTempTradieData, mcCallSidToPhone, mcCallSidToCaller>>
  /\ mcKeepAliveInterval' = [mcKeepAliveInterval EXCEPT ![i] = FALSE]
  /\ mcDisconnectCalls' = [mcDisconnectCalls EXCEPT ![i] = @ + 1]

\* wsTwilio.on('close') of connection i up to its first await
McOnClose(i) ==
  /\ mcWsState[i] \in {"OPEN", "CLOSING"}
  /\ mcClosePc[i] = "idle"
  /\ mcWsState' = [mcWsState EXCEPT ![i] = "CLOSED"]
  /\ IF Len(mcConversationHistory[i]) > 0 /\ mcTradieData[i] # NULL
       THEN /\ mcSummaryRequests' =
                 [mcSummaryRequests EXCEPT ![i] =
                    Append(@, ConversationTextOf(mcConversationHistory[i]))]
            /\ mcClosePc' = [mcClosePc EXCEPT ![i] = "awaitFetch"]
            /\ UNCHANGED <<mcTempTradieData, mcCallSidToPhone, mcCallSidToCaller,
                           mcKeepAliveInterval, mcDisconnectCalls>>
       ELSE /\ McCleanup(i)
            /\ mcClosePc' = [mcClosePc EXCEPT ![i] = "done"]
            /\ UNCHANGED mcSummaryRequests
  /\ UNCHANGED <<auVars, exVars, acVars, budget, srvVars, pwVars, mcWebhookPc, mcStored, mcStreamSid,
                 mcIsAgentReady, mcTradieData, mcConversationHistory, mcCallSid,
                 mcCallerPhoneNumber, mcTaskSubmissions, mcNText>>

\* The summarization request of connection i settles: with a task parsed
\* out of an ok response the task is submitted when the tradie data has a
\* routing number; in every case the cleanup follows.
McOnSummarySettled(i, parsed) ==
  /\ mcClosePc[i] = "awaitFetch"
  /\ mcClosePc' = [mcClosePc EXCEPT ![i] = "done"]
  /\ mcTaskSubmissions' =
       [mcTaskSubmissions EXCEPT ![i] =
          IF parsed /\ TwilioPhoneNumber(mcTradieData[i]) # "" THEN @ + 1 ELSE @]
  /\ McCleanup(i)
  /\ UNCHANGED <<auVars, exVars, acVars, budget, srvVars, pwVars, mcWebhookPc, mcStored, mcStreamSid,
                 mcIsAgentReady, mcTradieData, mcConversationHistory, mcCallSid,
                 mcCallerPhoneNumber, mcWsState, mcSummaryRequests, mcNText>>

\* ------------------------------------------------------------------ activeCalls variant
\* the closing sentence of the prompt of src/unnamed/part_000
AcClosingSentence ==
  "Thanks we have got your job request. Someone will be with you shortly. Thanks. Goodbye"
AcUtterances == {<<"assistant", AcClosingSentence>>, <<"user", "Hi">>}
\* data.content.includes('Goodbye'), over the contents of the model
IncludesGoodbye(content) == content = AcClosingSentence

\* app.post('/twiml') of src/unnamed/part_000: record the numbers and send
\* the routing document.
AcWebhook(c) ==
  /\ budget.webhook > 0
  /\ acCallSidToPhone[c] = NULL
  /\ acStartPc = "idle"
  /\ acCallSidToPhone' = [acCallSidToPhone EXCEPT ![c] = CalledNumber]
  /\ acCallSidToCaller' = [acCallSidToCaller EXCEPT ![c] = CallerNumber]
  /\ UNCHANGED <<auVars, exVars, mcVars, budget, srvVars, pwVars, acActiveCalls,
                 acUnhandledRejections, acCallSid, acStartPc, acWsState, acAgent,
                 acTradie, acConversation, acAgentSent, acReceived, acAudioEmitted,
                 acTwilioSent, acSummaryRequests, acDisconnectCalls, acNMedia, acNText,
                 acNMalformed>>

\* ws.on('message'), data.event === 'start', up to `await getTradieData`:
\* callSid is set, the entry of activeCalls is not there yet.
AcOnStart(c) ==
  /\ acWsState = "OPEN"
  /\ acStartPc = "idle"
  /\ acCallSidToPhone[c] # NULL
  /\ acCallSid' = c
  /\ acStartPc' = "lookup"
  /\ UNCHANGED <<auVars, exVars, mcVars, budget, srvVars, pwVars, acActiveCalls,
                 acCallSidToPhone, acCallSidToCaller, acUnhandledRejections, acWsState,
                 acAgent, acTradie, acConversation, acAgentSent, acReceived,
                 acAudioEmitted, acTwilioSent, acSummaryRequests, acDisconnectCalls,
                 acNMedia, acNText, acNMalformed>>

\* The `start` branch after the lookup settled with r: createDeepgramAgent
\* and activeCalls.set.  It runs whether or not the socket has closed in the
\* meantime.
AcOnStartLookupDone(c, s, r) ==
  /\ acStartPc = "lookup"
  /\ acStartPc' = "done"
  /\ acTradie' = r
  /\ acAgent' = "created"
  /\ acActiveCalls' = [acActiveCalls EXCEPT ![c] = [present |-> TRUE, streamSid |-> s]]
  /\ UNCHANGED <<auVars, exVars, mcVars, budget, srvVars, pwVars, acCallSidToPhone,
                 acCallSidToCaller, acUnhandledRejections, acCallSid, acWsState,
                 acConversation, acAgentSent, acReceived, acAudioEmitted, acTwilioSent,
                 acSummaryRequests, acDisconnectCalls, acNMedia, acNText, acNMalformed>>

\* ws.on('message'), data.event === 'media': with callSid set and an entry
\* in activeCalls the payload goes to agent.send; with callSid set and no
\* entry the optional chaining ends the statement and nothing is done with
\* the frame; without callSid the branch is not taken.
AcOnMedia(p) ==
  /\ acWsState = "OPEN"
  /\ acNMedia < budget.media
  /\ acNMedia' = acNMedia + 1
  /\ acReceived' = IF acCallSid # NULL THEN acReceived \o Base64Decode(p) ELSE acReceived
  /\ IF acCallSid # NULL /\ acActiveCalls[acCallSid].present
       THEN acAgentSent' = Append(acAgentSent, Base64Decode(p))
       ELSE UNCHANGED acAgentSent
  /\ UNCHANGED <<auVars, exVars, mcVars, budget, srvVars, pwVars, acActiveCalls,
                 acCallSidToPhone, acCallSidToCaller, acUnhandledRejections, acCallSid,
                 acStartPc, acWsState, acAgent, acTradie, acConversation,
                 acAudioEmitted, acTwilioSent, acSummaryRequests, acDisconnectCalls,
                 acNText, acNMalformed>>

\* The frames of the claim: text that is not JSON, a `media` frame without
\* its media object, a `start` frame without its start object.
AcMalformedFrames == {"unparseable", "mediaWithoutMedia", "startWithoutStart"}

\* ws.on('message') given a malformed frame.  The handler is an async
\* function without try/catch: JSON.parse, data.start.callSid of a missing
\* start object and data.media.payload of a missing media object throw, and
\* the handler's promise is rejected with nobody handling it.  The media
\* branch evaluates data.media.payload only when callSid is set and
\* activeCalls has the entry.
AcOnMalformedFrame(kind) ==
  /\ acWsState = "OPEN"
  /\ acNMalformed < budget.malformed
  /\ acNMalformed' = acNMalformed + 1
  /\ acUnhandledRejections' =
       IF \/ kind \in {"unparseable", "startWithoutStart"}
          \/ /\ kind = "mediaWithoutMedia"
             /\ acCallSid # NULL
             /\ acActiveCalls[acCallSid].present
         THEN acUnhandledRejections + 1
         ELSE acUnhandledRejections
  /\ UNCHANGED <<auVars, exVars, mcVars, budget, srvVars, pwVars, acActiveCalls,
                 acCallSidToPhone, acCallSidToCaller, acCallSid, acStartPc, acWsState,
                 acAgent, acTradie, acConversation, acAgentSent, acReceived,
                 acAudioEmitted, acTwilioSent, acSummaryRequests, acDisconnectCalls,
                 acNMedia, acNText>>

\* agent.on(AgentEvents.Welcome): configure.
AcOnWelcome ==
  /\ acAgent = "created"
  /\ acAgent' = "welcomed"
  /\ UNCHANGED <<auVars, exVars, mcVars, budget, srvVars, pwVars, acActiveCalls,
                 acCallSidToPhone, acCallSidToCaller, acUnhandledRejections, acCallSid,
                 acStartPc, acWsState, acTradie, acConversation, acAgentSent,
                 acReceived, acAudioEmitted, acTwilioSent, acSummaryRequests,
                 acDisconnectCalls, acNMedia, acNText, acNMalformed>>

\* agent.on(AgentEvents.Audio): sent to the socket of the call's entry when
\* there is one and it is OPEN.
AcOnAudio(c, chunk) ==
  /\ acAgent = "welcomed"
  /\ Len(acAudioEmitted) < budget.audio
  /\ acAudioEmitted' = Append(acAudioEmitted, chunk)
  /\ IF acActiveCalls[c].present /\ acWsState = "OPEN"
       THEN acTwilioSent' =
              Append(acTwilioSent, MediaFrame(acActiveCalls[c].streamSid, chunk))
       ELSE UNCHANGED acTwilioSent
  /\ UNCHANGED <<auVars, exVars, mcVars, budget, srvVars, pwVars, acActiveCalls,
                 acCallSidToPhone, acCallSidToCaller, acUnhandledRejections, acCallSid,
                 acStartPc, acWsState, acAgent, acTradie, acConversation, acAgentSent,
                 acReceived, acSummaryRequests, acDisconnectCalls, acNMedia, acNText,
                 acNMalformed>>

\* agent.on(AgentEvents.ConversationText): push the turn; on an assistant
\* turn that includes "Goodbye", summarizeConversation posts its request and
\* returns a promise of undefined, so no task is created here, and after
\* the await (a microtask, nothing comes between) the agent is
\* disconnected, the socket of the entry closed and the entry deleted.
AcOnConversationText(c, role, content) ==
  /\ acAgent = "welcomed"
  /\ acNText < budget.text
  /\ acNText' = acNText + 1
  /\ acConversation' = Append(acConversation, [role |-> role, content |-> content])
  /\ IF role = "assistant" /\ IncludesGoodbye(content)
       THEN /\ acSummaryRequests' =
                 Append(acSummaryRequests, ConversationTextOf(acConversation'))
            /\ acAgent' = "disconnected"
            /\ acDisconnectCalls' = acDisconnectCalls + 1
            /\ acWsState' = IF acActiveCalls[c].present /\ acWsState = "OPEN"
                              THEN "CLOSING" ELSE acWsState
            /\ acActiveCalls' = [acActiveCalls EXCEPT ![c] = AcNoEntry]
       ELSE UNCHANGED <<acSummaryRequests, acAgent, acDisconnectCalls, acWsState,
                        acActiveCalls>>
  /\ UNCHANGED <<auVars, exVars, mcVars, budget, srvVars, pwVars, acCallSidToPhone,
                 acCallSidToCaller, acUnhandledRejections, acCallSid, acStartPc,
                 acTradie, acAgentSent, acReceived, acAudioEmitted, acTwilioSent,
                 acNMedia, acNMalformed>>

\* ws.on('close'): with callSid set, disconnect the agent of the call's
\* entry when there is one, and delete the entry.
AcOnClose ==
  /\ acWsState \in {"OPEN", "CLOSING"}
  /\ acWsState' = "CLOSED"
  /\ IF acCallSid # NULL
       THEN /\ IF acActiveCalls[acCallSid].present
                 THEN /\ acAgent' = "disconnected"
                      /\ acDisconnectCalls' = acDisconnectCalls + 1
                 ELSE UNCHANGED <<acAgent, acDisconnectCalls>>
            /\ acActiveCalls' = [acActiveCalls EXCEPT ![acCallSid] = AcNoEntry]
       ELSE UNCHANGED <<acAgent, acDisconnectCalls, acActiveCalls>>
  /\ UNCHANGED <<auVars, exVars, mcVars, budget, srvVars, pwVars, acCallSidToPhone,
                 acCallSidToCaller, acUnhandledRejections, acCallSid, acStartPc,
                 acTradie, acConversation, acAgentSent, acReceived, acAudioEmitted,
                 acTwilioSent, acSummaryRequests, acNMedia, acNText, acNMalformed>>

\* ------------------------------------------------------------------ JSON extraction
\* A response text is a sequence of tokens: "{" and "}" are the braces, "m"
\* is a complete member with a scalar value, "p" is a word of prose.  A "{"
\* inside an object stands for a member whose value is an object.
Tokens == {"{", "}", "m", "p"}
Texts == UNION {[1..n -> Tokens] : n \in 0..MaxTokens}

\* open braces minus closing braces among the first k tokens of s
Depth(s, k) ==
  Cardinality({i \in 1..k : s[i] = "{"}) - Cardinality({i \in 1..k : s[i] = "}"})

\* JSON.parse(s) returns an object: s is one brace-balanced object with no
\* prose in it; on anything else JSON.parse throws.
JsonParses(s) ==
  /\ Len(s) >= 2
  /\ s[1] = "{"
  /\ \A k \in 1..Len(s) : s[k] # "p"
  /\ \A k \in 1..(Len(s) - 1) : Depth(s, k) >= 1
  /\ Depth(s, Len(s)) = 0

\* JsonMatch that stops at the first closing brace: /\{[\s\S]*?\}/
JsonMatchLazy(text) ==
  LET opens == {i \in 1..Len(text) : text[i] = "{"}
  IN  IF opens = {} THEN <<>>
      ELSE LET first == CHOOSE i \in opens : \A k \in opens : i <= k
               closes == {j \in 1..Len(text) : text[j] = "}" /\ j > first}
           IN  IF closes = {} THEN <<>>
               ELSE SubSeq(text, first, CHOOSE j \in closes : \A k \in closes : j <= k)

\* aiResponse.match(/\{[\s\S]*\}/): from the first opening brace that has a
\* closing brace after it to the last closing brace; <<>> when no match.
JsonMatch(text) ==
  LET opens == {i \in 1..Len(text) : text[i] = "{"}
  IN  IF opens = {} THEN <<>>
      ELSE LET first == CHOOSE i \in opens : \A k \in opens : i <= k
               closes == {j \in 1..Len(text) : text[j] = "}" /\ j > first}
           IN  IF closes = {} THEN <<>>
               ELSE SubSeq(text, first, CHOOSE j \in closes : \A k \in closes : j >= k)

\* Lines 297-303: the match, then JSON.parse of it; no match and a parse
\* error both throw into the catch, and no task comes out.
ExtractTask(text) ==
  LET jsonMatch == JsonMatch(text)
  IN  IF jsonMatch # <<>> /\ JsonParses(jsonMatch) THEN jsonMatch ELSE NoTask

\* The 'close' handler reaches the extraction with the response text.
ExtractJson ==
  /\ exPc = "input"
  /\ exPc' = "done"
  /\ exTask' = ExtractTask(exText)
  /\ UNCHANGED <<auVars, exText, acVars, mcVars, budget, srvVars, pwVars>>

\* ------------------------------------------------------------------ authentication
\* Strings are sequences of characters.
Digits == {"0", "1", "2", "3", "4", "5", "6", "7", "8", "9"}
DigitValue(ch) ==
  CASE ch = "0" -> 0 [] ch = "1" -> 1 [] ch = "2" -> 2 [] ch = "3" -> 3
    [] ch = "4" -> 4 [] ch = "5" -> 5 [] ch = "6" -> 6 [] ch = "7" -> 7
    [] ch = "8" -> 8 [] ch = "9" -> 9
DigitChar(d) == CHOOSE ch \in Digits : DigitValue(ch) = d

\* the decimal number a sequence of digits stands for
RECURSIVE DecimalValue(_)
DecimalValue(s) ==
  IF s = <<>> THEN 0
  ELSE 10 * DecimalValue(SubSeq(s, 1, Len(s) - 1)) + DigitValue(s[Len(s)])

\* parseInt(s): the number of the longest prefix of digits, NaN when s does
\* not start with a digit (signs and leading blanks are not among the
\* characters of the model)
ParseInt(s) ==
  LET n == Cardinality({k \in 1..Len(s) : \A i \in 1..k : s[i] \in Digits})
  IN  IF n = 0 THEN [nan |-> TRUE, value |-> 0]
      ELSE [nan |-> FALSE, value |-> DecimalValue(SubSeq(s, 1, n))]

\* n.toString() of a non-negative integer
RECURSIVE NumberToString(_)
NumberToString(n) ==
  IF n < 10 THEN <<DigitChar(n)>>
  ELSE NumberToString(n \div 10) \o <<DigitChar(n % 10)>>

\* Math.abs(a - b)
AbsDiff(a, b) == IF a >= b THEN a - b ELSE b - a

\* 5 * 60 * 1000
WindowMs == 300000

\* process.env.API_SHARED_SECRET, and a secret that is not it
Secret == "S"
OtherSecret == "Z"
\* crypto.createHmac('sha256', secret).update(message).digest('hex'): a
\* digest stands for the secret and the message it was computed from, so
\* two digests are equal only when both are
Hmac(secret, message) == <<"H", secret>> \o message
\* `${apiKey}:${timestamp}`
SignedMessage(apiKey, timestamp) == apiKey \o <<":">> \o timestamp

\* !h of a header value: undefined and the empty string are falsy
Falsy(h) == ~h.present \/ h.value = <<>>

MissingHeaders == "Missing required authentication headers"
TimestampExpired == "Timestamp expired or too far in future"
InvalidSignature == "Invalid signature"

\* validateApiKeyAuth(req) with Date.now() = now.  A comparison with NaN is
\* false, so a timestamp that parseInt turns into NaN passes line 55.
validateApiKeyAuth(h, now) ==
  IF Falsy(h.apiKey) \/ Falsy(h.timestamp) \/ Falsy(h.signature)
    THEN [valid |-> FALSE, error |-> MissingHeaders]
  ELSE LET requestTime == ParseInt(h.timestamp.value)
       IN  IF ~requestTime.nan /\ AbsDiff(now, requestTime.value) > WindowMs
             THEN [valid |-> FALSE, error |-> TimestampExpired]
           ELSE IF h.signature.value #
                     Hmac(Secret, SignedMessage(h.apiKey.value, h.timestamp.value))
             THEN [valid |-> FALSE, error |-> InvalidSignature]
           ELSE [valid |-> TRUE, error |-> ""]

\* generateAuthHeaders() with Date.now() = now and crypto.randomBytes giving
\* apiKey
generateAuthHeaders(now, apiKey) ==
  [apiKey |-> Header(apiKey),
   timestamp |-> Header(NumberToString(now)),
   signature |-> Header(Hmac(Secret, SignedMessage(apiKey, NumberToString(now))))]

\* What a request can carry.  Timestamps: the time the model starts at, a
\* time more than five minutes later, a word, and a time followed by a letter.
ApiKeyHeaders == {Absent, Header(<<>>), Header(<<"k">>)}
TimestampHeaders ==
  {Absent, Header(<<>>), Header(NumberToString(Epoch)), Header(NumberToString(Epoch + WindowMs + 1)),
   Header(<<"a">>), Header(NumberToString(Epoch) \o <<"x">>)}
SignatureKinds == {"absent", "empty", "right", "otherSecret", "otherMessage"}
SignatureHeader(kind, k, t) ==
  CASE kind = "absent" -> Absent
    [] kind = "empty" -> Header(<<>>)
    [] kind = "right" -> Header(Hmac(Secret, SignedMessage(k.value, t.value)))
    [] kind = "otherSecret" -> Header(Hmac(OtherSecret, SignedMessage(k.value, t.value)))
    [] kind = "otherMessage" -> Header(Hmac(Secret, SignedMessage(<<"j">>, t.value)))

\* A request arrives with headers of the sender's choosing.
AuReceive(k, t, kind) ==
  /\ auPc = "idle"
  /\ auPc' = "input"
  /\ auHeaders' = [apiKey |-> k, timestamp |-> t, signature |-> SignatureHeader(kind, k, t)]
  /\ auOrigin' = "received"
  /\ UNCHANGED <<auNow, auIssuedAt, auResult, exVars, acVars, mcVars, budget, srvVars,
                 pwVars>>

\* A request arrives with the headers generateAuthHeaders made for it.
AuGenerate(apiKey) ==
  /\ auPc = "idle"
  /\ auPc' = "input"
  /\ auHeaders' = generateAuthHeaders(auNow, apiKey)
  /\ auOrigin' = "generated"
  /\ auIssuedAt' = auNow
  /\ UNCHANGED <<auNow, auResult, exVars, acVars, mcVars, budget, srvVars, pwVars>>

\* Time passes between the sending of a request and its validation, or the
\* validator's clock is behind the sender's.
AuClockMoves(d, forward) ==
  /\ auPc = "input"
  /\ auNow = IF auOrigin = "generated" THEN auIssuedAt ELSE Epoch
  /\ auNow' = IF forward THEN auNow + d ELSE auNow - d
  /\ UNCHANGED <<auPc, auHeaders, auOrigin, auIssuedAt, auResult, exVars, acVars,
                 mcVars, budget, srvVars, pwVars>>

\* The request handler calls validateApiKeyAuth.
AuValidate ==
  /\ auPc = "input"
  /\ auPc' = "done"
  /\ auResult' = validateApiKeyAuth(auHeaders, auNow)
  /\ UNCHANGED <<auNow, auHeaders, auOrigin, auIssuedAt, exVars, acVars, mcVars,
                 budget, srvVars, pwVars>>

\* ------------------------------------------------------------------ spec
Init ==
  /\ InitACVars
  /\ InitEXVars
  /\ InitAUVars
  /\ budget \in Budgets
  /\ InitServerVars
  /\ InitPWVars
  /\ InitMCVars

Next ==
  \/ \E c \in CallSids : WebhookRequest(c)
  \/ \E c \in CallSids, r \in LookupResults : WebhookLookupDone(c, r)
  \/ OnWelcome
  \/ OnAudio(ChunkOf(Len(audioEmitted) + 1))
  \/ OnError
  \/ OnUserStartedSpeaking
  \/ \E u \in Utterances : OnConversationText(u[1], u[2])
  \/ AgentSocketClosed
  \/ OnMedia(PayloadOf(nMedia + 1))
  \/ \E c \in CallSids : OnStart(c, StreamSidOf(nStart + 1))
  \/ OnClose
  \/ \E ok \in BOOLEAN : OnSummaryResponse(ok)
  \/ \E parsed \in BOOLEAN : OnSummaryBody(parsed)
  \/ \E ok \in BOOLEAN : OnTaskResult(ok)
  \/ \E kind \in MalformedFrames : OnMalformedFrame(kind)
  \/ KeepAliveTick

Spec == Init /\ [][Next]_vars

InitPW ==
  /\ InitACVars
  /\ InitEXVars
  /\ InitAUVars
  /\ budget \in BudgetsPW
  /\ InitServerVars
  /\ InitPWVars
  /\ InitMCVars

NextPW ==
  \/ \E c \in CallSids : PwWebhook(c)
  \/ \E k \in Invocations : PwWelcome(k)
  \/ \E k \in Invocations : PwAudio(k, ChunkOf(Len(pwAudioEmitted) + 1))
  \/ \E k \in Invocations, u \in Utterances : PwConversationText(k, u[1], u[2])
  \/ \E k \in Invocations : PwAgentSocketClosed(k)
  \/ \E parsed \in BOOLEAN : PwSummarySettled(parsed)
  \/ PwMedia(PayloadOf(pwNMedia + 1))
  \/ \E c \in CallSids : PwStart(c, StreamSidOf(pwNStart + 1))
  \/ PwClose

SpecPW == InitPW /\ [][NextPW]_vars

InitMC ==
  /\ InitACVars
  /\ InitEXVars
  /\ InitAUVars
  /\ budget \in BudgetsMC
  /\ InitServerVars
  /\ InitPWVars
  /\ InitMCVars

NextMC ==
  \/ \E c \in Calls : McWebhookRequest(c)
  \/ \E c \in Calls : McWebhookLookupDone(c, TradieOf(c))
  \/ \E c \in Calls : McWebhookLookupDone(c, NULL)
  \/ \E i \in Conns : McOnWelcome(i)
  \/ \E i \in Conns, u \in McUtterances : McOnConversationText(i, u[1], u[2])
  \/ \E i \in Conns : McOnStart(i, CallOf(i), McStreamSidOf(i))
  \/ \E i \in Conns : McOnClose(i)
  \/ \E i \in Conns, parsed \in BOOLEAN : McOnSummarySettled(i, parsed)

SpecMC == InitMC /\ [][NextMC]_vars

InitAC ==
  /\ budget \in BudgetsAC
  /\ InitServerVars
  /\ InitPWVars
  /\ InitMCVars
  /\ InitACVars
  /\ InitEXVars
  /\ InitAUVars

NextAC ==
  \/ \E c \in CallSids : AcWebhook(c)
  \/ \E c \in CallSids : AcOnStart(c)
  \/ \E c \in CallSids, r \in LookupResults : AcOnStartLookupDone(c, StreamSidOf(1), r)
  \/ AcOnMedia(PayloadOf(acNMedia + 1))
  \/ \E kind \in AcMalformedFrames : AcOnMalformedFrame(kind)
  \/ AcOnWelcome
  \/ \E c \in CallSids : AcOnAudio(c, ChunkOf(Len(acAudioEmitted) + 1))
  \/ \E c \in CallSids, u \in AcUtterances : AcOnConversationText(c, u[1], u[2])
  \/ AcOnClose

SpecAC == InitAC /\ [][NextAC]_vars

InitExtract ==
  /\ budget \in BudgetsMC
  /\ InitServerVars
  /\ InitPWVars
  /\ InitMCVars
  /\ InitACVars
  /\ exPc = "input"
  /\ exText \in Texts
  /\ exTask = NoTask
  /\ InitAUVars

NextExtract == ExtractJson

SpecExtract == InitExtract /\ [][NextExtract]_vars

InitAuth ==
  /\ budget \in BudgetsMC
  /\ InitServerVars
  /\ InitPWVars
  /\ InitMCVars
  /\ InitACVars
  /\ exPc = "done"
  /\ exText = <<>>
  /\ exTask = NoTask
  /\ auPc = "idle"
  /\ auNow = Epoch
  /\ auHeaders = NoHeaders
  /\ auOrigin = "none"
  /\ auIssuedAt = 0
  /\ auResult = NoResult

\* the clock differences the model tries: none, one millisecond, the window,
\* the window and one millisecond
ClockSteps == {1, WindowMs, WindowMs + 1}

NextAuth ==
  \/ \E k \in ApiKeyHeaders, t \in TimestampHeaders, kind \in SignatureKinds :
       AuReceive(k, t, kind)
  \/ AuGenerate(<<"k">>)
  \/ \E d \in ClockSteps, forward \in BOOLEAN : AuClockMoves(d, forward)
  \/ AuValidate

SpecAuth == InitAuth /\ [][NextAuth]_vars

\* The 'close' event of a socket on which wsTwilio.close() has been called:
\* the ws library emits it when the closing handshake completes or its close
\* timer expires.  Nothing bounds the summarization request (node-fetch has
\* no default timeout), the agent's events or the caller, so FairSpec puts
\* fairness on this step alone.
CloseAfterClosing == wsState = "CLOSING" /\ OnClose

FairSpec == Spec /\ WF_vars(CloseAfterClosing)

\* ------------------------------------------------------------------ claims
\* the base64 payloads of a sequence of outbound frames / of agent chunks
PayloadsOf(frames) == [i \in 1..Len(frames) |-> frames[i].payload]
EncodedChunks(chunks) == [i \in 1..Len(chunks) |-> Base64Encode(chunks[i])]

RegistryClear(c) ==
  /\ tempTradieData[c] = NULL
  /\ callSidToPhone[c] = NULL
  /\ callSidToCaller[c] = NULL

\* C1: the bytes passed to connection.send, in call order, are the received
\* media payloads in receipt order; what is not yet sent is exactly the
\* pending buffer, and nothing is pending once Welcome has been handled.
C1_InboundOrder ==
  /\ Concat(agentSent) \o audioBuffer = received
  /\ isAgentReady => Concat(agentSent) = received

\* C1 witness: two chunks were buffered, flushed in one send at Welcome, and
\* a third chunk was sent after it.
C1_Witness ==
  /\ isAgentReady
  /\ nMedia = 3
  /\ Len(agentSent) = 2
  /\ agentSent[1] = <<65, 66>>
  /\ agentSent[2] = <<67>>

\* the number of assistant "BYE" turns in a history
ByeCount(history) ==
  Cardinality({i \in 1..Len(history) : IsBye(history[i].role, history[i].content)})

\* C2: with one /twiml request for the call and one assistant "BYE", the
\* summarization request is issued at most once and the agent connection is
\* disconnected at most once, whatever the order of the "BYE" and the
\* telephony close.
C2_TeardownOncePW ==
  (pwInvoked <= 1 /\ ByeCount(pwData[1].conversationHistory) <= 1) =>
    /\ Len(pwSummaryRequests) <= 1
    /\ \A k \in Invocations : pwDisconnects[k] <= 1

\* C3: with one /twiml request, once both Welcome and `start` have happened
\* (in either order) and the telephony socket is open, the agent has been
\* sent exactly the media received after `start`, and the telephony socket
\* exactly the agent's audio chunks, each once and in order.
C3_NoLossNoDupPW ==
  (pwInvoked <= 1 /\ pwNStart > 0 /\ pwConn[1] = "ready" /\ pwWsState = "OPEN") =>
    /\ Concat(pwAgentSent[1]) \o pwData[1].audioBuffer = pwReceived
    /\ PayloadsOf(pwTwilioSent) = EncodedChunks(pwAudioEmitted)

\* C4: once `start` has supplied streamSid, every chunk the agent emitted
\* while the socket was open has been sent to it, the earlier ones first.
C4_OutboundQueued ==
  (streamSid # NULL /\ wsState = "OPEN") =>
    PayloadsOf(twilioSent) = EncodedChunks(audioEmitted)

\* C5: an assistant "BYE" that closes the telephony socket of a call that
\* has had its `start` frame and its tradie data leads to the teardown
\* having run, with exactly one summarization request and no registry entry
\* left for the CallSid.
C5_ByeLeadsToTeardown ==
  \A c \in CallSids :
    (byeDetected /\ closeCalls = 1 /\ callSid = c /\ tradieData # NULL) ~>
      (closePc = "done" /\ Len(summaryRequests) = 1 /\ RegistryClear(c))

\* C6: after the telephony socket's close event the teardown completes
\* (timer step passed, agent disconnected, registry entries removed) whether
\* or not the summarization request ever settles.
C6_TeardownIndependent ==
  \A c \in CallSids :
    (wsState = "CLOSED" /\ callSid = c) ~>
      (closePc = "done" /\ disconnectCalls > 0 /\ RegistryClear(c))

\* C7: once an assistant "BYE" has been handled, no step sends inbound audio
\* to the agent or appends it to the pending buffer.
C7_NoInboundAfterBye ==
  [][byeDetected => (agentSent' = agentSent /\ audioBuffer' = audioBuffer)]_vars

\* C8: once an assistant "BYE" has been handled, conversationHistory does
\* not change.
C8_TranscriptFrozen ==
  [][byeDetected => conversationHistory' = conversationHistory]_vars

\* C9: after the caller speaks over the agent's audio, the next frame sent
\* to the telephony socket is a `clear` frame, not a `media` frame.
C9_BargeIn ==
  (bargeAt > 0 /\ Len(twilioSent) > bargeAt) =>
    twilioSent[bargeAt + 1].event = "clear"

\* C10: an Error event after Welcome leads to the teardown; its first
\* effect, the telephony socket closed and the close handler entered, is
\* what is asked here.
C10_ErrorLeadsToTeardown ==
  (dgError = "postWelcome") ~> (wsState = "CLOSED" /\ closePc # "idle")

\* C11: once the agent connection has emitted Error before Welcome, and as
\* long as the agent is not ready, the pending buffer is empty (what was
\* buffered is discarded, nothing more is buffered) and the telephony socket
\* is no longer open.
C11_ErrorBeforeReadyAborts ==
  (dgError = "preWelcome" /\ ~isAgentReady) =>
    (audioBuffer = <<>> /\ wsState # "OPEN")

\* C12: for one media connection, whatever the assistant "BYE" turns and
\* the telephony close, wsTwilio.close() is called at most once, at most one
\* summarization request is issued, connection.disconnect() is called at
\* most once, and exactly once when the 'close' handler has completed.
C12_TeardownOnce ==
  /\ closeCalls <= 1
  /\ Len(summaryRequests) <= 1
  /\ disconnectCalls <= 1
  /\ closePc = "done" => disconnectCalls = 1

\* C12 witness: two assistant "BYE" turns and then the telephony close; the
\* handler has completed with one close(), one summarization request and
\* one disconnect().
C12_Witness ==
  /\ ByeCount(conversationHistory) = 2
  /\ closePc = "done"
  /\ closeCalls = 1
  /\ Len(summaryRequests) = 1
  /\ disconnectCalls = 1

\* every step named a in the log comes before every step named b
StepsInOrder(a, b) ==
  \A i, j \in 1..Len(teardownLog) :
    (teardownLog[i] = a /\ teardownLog[j] = b) => i < j

\* C13: the teardown takes its steps in the stated order: the keep-alive
\* timer is stopped before the agent is disconnected, the agent is
\* disconnected before the summarization request is issued, and the removal
\* of the registry entries is the last step.
C13_TeardownOrder ==
  /\ StepsInOrder("timer", "disconnect")
  /\ StepsInOrder("disconnect", "summarize")
  /\ \A i \in 1..Len(teardownLog) :
       teardownLog[i] = "registry" => i = Len(teardownLog)

\* the webhook of call c has answered and stored nothing, and the call has
\* not been torn down
NoAccount(c) ==
  webhookPc[c] = "done" /\ tempTradieData[c] = NULL /\ closePc = "idle"

IsSuffix(a, b) ==
  Len(a) <= Len(b) /\ a = SubSeq(b, Len(b) - Len(a) + 1, Len(b))

\* C14: a call whose account lookup gave null proceeds: the webhook has
\* answered, the server does not close the media connection (it stays open
\* until an assistant "BYE" or the caller's close), the configuration sent
\* on Welcome is the default one, inbound audio is relayed or pending, and
\* what is sent to the telephony socket is the agent's latest audio.
C14_CallProceedsWithoutAccount ==
  \A c \in CallSids :
    (NoAccount(c) /\ callSid = c) =>
      /\ ~byeDetected => wsState = "OPEN"
      /\ isAgentReady => agentConfig = DefaultConfig
      /\ Concat(agentSent) \o audioBuffer = received
      /\ IsSuffix(PayloadsOf(twilioSent), EncodedChunks(audioEmitted))

\* C14 witness: the lookup gave null, the stream started, Welcome came, and
\* one chunk has gone each way on the open socket.
C14_Witness ==
  /\ NoAccount("CA1")
  /\ callSid = "CA1"
  /\ wsState = "OPEN"
  /\ agentConfig = DefaultConfig
  /\ agentSent = << <<65>> >>
  /\ PayloadsOf(twilioSent) = <<"QQ==">>

\* C15: once the agent is configured and the call has read its tradie data,
\* the configuration the agent was sent is not the one every call without
\* tradie data gets: it is personalized.
C15_ConfigPersonalized ==
  (isAgentReady /\ tradieData # NULL) => agentConfig # DefaultConfig

\* the three maps hold nothing for call c
McRegistryClear(c) ==
  /\ mcTempTradieData[c] = NULL
  /\ mcCallSidToPhone[c] = NULL
  /\ mcCallSidToCaller[c] = NULL

\* C16: with two calls at once, the tradie data and the caller number a
\* connection holds after `start` are what the webhook of its own CallSid
\* stored (null when it stored nothing), and a step that removes entries of
\* a CallSid from the maps is the completion of the teardown of the
\* connection that carries that CallSid.
C16_CallsDoNotInterfere ==
  /\ [](\A i \in Conns :
          mcCallSid[i] # NULL =>
            /\ mcTradieData[i] = mcStored[mcCallSid[i]]
            /\ mcCallerPhoneNumber[i] =
                 IF mcStored[mcCallSid[i]] # NULL THEN CallerOf(mcCallSid[i]) ELSE NULL)
  /\ [][\A c \in Calls :
         (~McRegistryClear(c) /\ (mcTempTradieData'[c] = NULL
                                  \/ mcCallSidToPhone'[c] = NULL
                                  \/ mcCallSidToCaller'[c] = NULL))
           => \E i \in Conns : /\ mcCallSid[i] = c
                                /\ mcClosePc[i] # "done"
                                /\ mcClosePc'[i] = "done"]_vars

\* C16 witness: both webhooks stored data, both connections read their own
\* at `start`, and connection 1 has been torn down: the entries of CA1 are
\* gone and those of CA2 are still there.
C16_Witness ==
  /\ mcTradieData[1] = "T1" /\ mcCallerPhoneNumber[1] = CallerOf("CA1")
  /\ mcTradieData[2] = "T2" /\ mcCallerPhoneNumber[2] = CallerOf("CA2")
  /\ mcClosePc[1] = "done" /\ mcClosePc[2] = "idle"
  /\ McRegistryClear("CA1")
  /\ mcTempTradieData["CA2"] = "T2"
  /\ mcCallSidToPhone["CA2"] = CalledOf("CA2")
  /\ mcCallSidToCaller["CA2"] = CallerOf("CA2")

\* C17: whatever the webhook stores for a CallSid is eventually removed
\* from the three maps.
C17_EntriesEventuallyRemoved ==
  \A c \in CallSids : (tempTradieData[c] # NULL) ~> RegistryClear(c)

\* the invocations of forceInvokeDeepgram for CallSid c whose agent
\* connection is open or opening
PwSessionsOf(c) ==
  {k \in Invocations : pwData[k].callSid = c /\ pwConn[k] \in {"connecting", "ready"}}

\* C18: per CallSid there is at most one agent connection open or opening
\* and at most one keep-alive timer running, however many webhook requests
\* carried the CallSid.
C18_SessionCreationIdempotentPW ==
  \A c \in CallSids :
    /\ Cardinality(PwSessionsOf(c)) <= 1
    /\ Cardinality({k \in Invocations : pwData[k].callSid = c /\ pwTimer[k]}) <= 1

\* C19: every webhook request that has started its account lookup gets its
\* routing document.
C19_WebhookAnswers ==
  \A c \in CallSids : (webhookPc[c] = "lookup") ~> (webhookPc[c] = "done")

\* C20: a `start` frame for a CallSid the registry holds no data for makes
\* the handler call getTradieData.
C20_LazyLookupAtStart ==
  [][\A c \in CallSids :
       (nStart' = nStart + 1 /\ callSid' = c /\ tempTradieData[c] = NULL)
         => lookupCalls' = lookupCalls + 1]_vars
\* two values a handler cannot tell apart by truthiness, or the same value
SameValue(a, b) == a = b \/ (~Truthy(a) /\ ~Truthy(b))

\* C21: a malformed frame is dropped: the step that handles it leaves
\* audioBuffer, isAgentReady, tradieData and conversationHistory as they
\* were, sends nothing to the agent, leaves the telephony socket in its
\* state, and leaves streamSid and callSid as they were (a null that becomes
\* undefined is not counted as a change).
C21_MalformedFrameDropped ==
  [][nMalformed' # nMalformed =>
       /\ UNCHANGED <<audioBuffer, isAgentReady, tradieData, conversationHistory,
                      agentSent, wsState>>
       /\ SameValue(streamSid', streamSid)
       /\ SameValue(callSid', callSid)]_vars

\* the contents of the model that contain "Goodbye"
SaysGoodbye(content) == content = ClosingSentence

\* C23: once the agent has emitted an utterance containing "Goodbye", the
\* telephony socket is no longer open.
C23_GoodbyeEndsCall ==
  (\E i \in 1..Len(conversationHistory) :
     /\ conversationHistory[i].role = "assistant"
     /\ SaysGoodbye(conversationHistory[i].content))
    => wsState # "OPEN"

\* C24: post-call processing is tried once: at most one summarization
\* request and at most one task submission; when the summarization failed
\* or gave no task, no task is submitted and the handler has completed with
\* the registry entries removed, the keep-alive timer stopped and the agent
\* disconnected; a failed task submission stays the only one.
C24_PostCallFailureIsTerminal ==
  /\ Len(summaryRequests) <= 1
  /\ taskSubmissions <= 1
  /\ summaryOutcome \in {"failed", "noTask"} =>
       /\ taskSubmissions = 0
       /\ closePc = "done"
       /\ disconnectCalls = 1
       /\ ~keepAliveInterval /\ activeTimers = 0
       /\ Truthy(callSid) => RegistryClear(callSid)
  /\ taskResult = "failed" => taskSubmissions = 1

\* C24 witness: the summarization of a started call with a running timer
\* failed, and the teardown has completed.
C24_Witness ==
  /\ summaryOutcome = "failed"
  /\ callSid = "CA1"
  /\ isAgentReady
  /\ closePc = "done"
  /\ disconnectCalls = 1
  /\ teardownLog = <<"summarize", "registry", "timer", "disconnect">>

\* C25: conversationHistory holds one entry per ConversationText event, in
\* arrival order; a step leaves it alone or appends one entry after the
\* existing ones; the conversation text of a summarization request lists
\* the turns that have arrived, in arrival order.
C25_TranscriptAppendOnly ==
  /\ [](ConversationTextOf(conversationHistory) = textArrived)
  /\ [][\/ conversationHistory' = conversationHistory
        \/ /\ Len(conversationHistory') = Len(conversationHistory) + 1
           /\ SubSeq(conversationHistory', 1, Len(conversationHistory))
                = conversationHistory]_vars
  /\ [][summaryRequests' # summaryRequests =>
          summaryRequests' = Append(summaryRequests, textArrived)]_vars

\* C25 witness: two different turns arrived and the summarization request
\* lists them in that order.
C25_Witness ==
  /\ textArrived = << <<"assistant", "Hi">>, <<"assistant", "BYE">> >>
  /\ Len(conversationHistory) = 2
  /\ summaryRequests = <<textArrived>>

\* C26: whenever isAgentReady is true the pending buffer is empty.
C26_ReadyMeansNoPending == isAgentReady => audioBuffer = <<>>

\* C26 witness: three chunks arrived before Welcome, were sent in one send
\* at Welcome, and the buffer is empty.
C26_Witness ==
  /\ isAgentReady
  /\ agentSent = << <<65, 66, 67>> >>
  /\ audioBuffer = <<>>

\* The part of C27 about src/server.js: a step that calls connection.send
\* ends with the agent ready and comes before any connection.disconnect().
ServerSendsOnlyWhileReady ==
  [][agentSent' # agentSent => (isAgentReady' /\ disconnectCalls = 0)]_vars
\* C22: the message handler of the activeCalls variant never ends in an
\* unhandled rejection, whatever frame it is given.
C22_NoUnhandledRejectionAC == acUnhandledRejections = 0

\* C27: agent.send is not called before the agent's Welcome event: as long
\* as the agent has not emitted Welcome, nothing has been passed to it.
C27_SendOnlyAfterWelcomeAC ==
  acAgent \in {"none", "created"} => acAgentSent = <<>>

\* C30: once the session exists (the entry is in activeCalls) on an open
\* socket, the agent has been given every media payload received since the
\* `start` frame, in order.
C30_NoDropDuringSetupAC ==
  (acStartPc = "done" /\ acWsState = "OPEN" /\ acActiveCalls[acCallSid].present)
    => Concat(acAgentSent) = acReceived

\* text[i..j] is a JSON object and everything around it is prose
ObjectInProse(text, i, j) ==
  /\ JsonParses(SubSeq(text, i, j))
  /\ \A k \in 1..Len(text) : (k < i \/ k > j) => text[k] = "p"

\* C28: when the response text is one JSON object with prose before and
\* after it, the extracted task is exactly that object.
C28_ExtractionRoundTrip ==
  exPc = "done" =>
    \A i, j \in 1..Len(exText) :
      ObjectInProse(exText, i, j) => exTask = SubSeq(exText, i, j)

\* C28 witness: an object with prose on both sides.
C28_Witness ==
  /\ exPc = "done"
  /\ exText = <<"p", "{", "m", "}", "p">>
  /\ exTask = <<"{", "m", "}">>

\* text[i..j] is the first well-formed JSON object of the text, with
\* nothing but prose before it: none that starts at i ends earlier
FirstObject(text, i, j) ==
  /\ JsonParses(SubSeq(text, i, j))
  /\ \A k \in 1..(i - 1) : text[k] = "p"
  /\ \A b \in i..Len(text) : JsonParses(SubSeq(text, i, b)) => j <= b

\* C29: the extracted task is the first well-formed JSON object of the
\* response text, whatever follows it (further braces, a second object).
C29_ExtractsFirstObject ==
  exPc = "done" =>
    \A i, j \in 1..Len(exText) :
      FirstObject(exText, i, j) => exTask = SubSeq(exText, i, j)

\* C31: in the activeCalls variant, once the telephony socket has closed and
\* the `start` handler has run to its end, activeCalls has no entry for the
\* call and every agent connection created for it has been disconnected.
C31_NoOrphanAfterCloseAC ==
  (acWsState = "CLOSED" /\ acStartPc # "lookup") =>
    /\ \A c \in CallSids : ~acActiveCalls[c].present
    /\ acAgent \in {"none", "disconnected"}

\* what the three headers must be for a request to be authentic at time now
HeadersPresent(h) == ~Falsy(h.apiKey) /\ ~Falsy(h.timestamp) /\ ~Falsy(h.signature)
\* the timestamp is a time: a decimal number of milliseconds
IsTime(s) == s # <<>> /\ \A i \in 1..Len(s) : s[i] \in Digits
TimestampFresh(h, now) ==
  /\ IsTime(h.timestamp.value)
  /\ AbsDiff(now, DecimalValue(h.timestamp.value)) <= WindowMs
SignatureRight(h) ==
  h.signature.value = Hmac(Secret, SignedMessage(h.apiKey.value, h.timestamp.value))

\* C36: validateApiKeyAuth returns valid exactly when the three headers are
\* present, the timestamp is a time within five minutes of the current time
\* and the signature is the HMAC of apiKey:timestamp under the shared
\* secret; a missing header is reported first, then a bad timestamp, then a
\* bad signature; and headers made by generateAuthHeaders are accepted
\* while they are at most five minutes old.
C36_AuthValidIffAuthentic ==
  auPc = "done" =>
    /\ auResult.valid <=>
         (HeadersPresent(auHeaders) /\ TimestampFresh(auHeaders, auNow)
            /\ SignatureRight(auHeaders))
    /\ ~HeadersPresent(auHeaders) => auResult.error = MissingHeaders
    /\ (HeadersPresent(auHeaders) /\ ~TimestampFresh(auHeaders, auNow))
         => auResult.error = TimestampExpired
    /\ (HeadersPresent(auHeaders) /\ TimestampFresh(auHeaders, auNow)
          /\ ~SignatureRight(auHeaders)) => auResult.error = InvalidSignature
    /\ (auOrigin = "generated" /\ AbsDiff(auNow, auIssuedAt) <= WindowMs)
         => auResult.valid

\* The same with the timestamps that are not decimal numbers set aside: what
\* is left of C36 holds.
AuthRightOnDecimalTimestamps ==
  (auPc = "done" /\ (Falsy(auHeaders.timestamp) \/ IsTime(auHeaders.timestamp.value)))
    => C36_AuthValidIffAuthentic

\* A request whose timestamp is a word and whose signature is right for it
\* has been accepted.
WordTimestampAccepted ==
  /\ auPc = "done"
  /\ auHeaders.timestamp = Header(<<"a">>)
  /\ auResult.valid

\* C32: once the 'close' handler of the telephony socket has completed, no
\* keep-alive timer of the call's agent connection is active and
\* connection.keepAlive() is not called again, whenever the agent's Welcome
\* comes; and there is never more than one keep-alive timer.
C32_NoKeepAliveAfterClose ==
  /\ [](closePc = "done" => activeTimers = 0)
  /\ [][closePc = "done" => keepAliveCalls' = keepAliveCalls]_vars
  /\ [](activeTimers <= 1)

\* The part of C32 that holds: at most one keep-alive timer at any time.
AtMostOneKeepAliveTimer == activeTimers <= 1

\* keepAlive() has been called after the 'close' handler completed and the
\* agent was disconnected.
KeepAliveAfterDisconnect ==
  /\ closePc = "done"
  /\ disconnectCalls = 1
  /\ activeTimers = 1
  /\ keepAliveCalls = 1

\* C33: every media frame sent to the telephony socket carries the streamSid
\* of the most recent `start` frame received on that socket, and none is
\* sent before a `start` frame has been received.
C33_OutboundCarriesStreamSid ==
  [][twilioSent' # twilioSent =>
       /\ nStart >= 1
       /\ Len(twilioSent') = Len(twilioSent) + 1
       /\ twilioSent'[Len(twilioSent')].streamSid = StreamSidOf(nStart)]_vars

\* C33 witness: a frame sent after the first `start` frame and one sent after
\* the second, each with the streamSid of its time.
C33_Witness ==
  /\ nStart = 2
  /\ Len(twilioSent) = 2
  /\ twilioSent[1].streamSid = StreamSidOf(1)
  /\ twilioSent[2].streamSid = StreamSidOf(2)

C35_PostCallOnlyWhenWarranted ==
  /\ [](Len(summaryRequests) <= 1 /\ taskSubmissions <= 1)
  /\ [][summaryRequests' # summaryRequests =>
          /\ conversationHistory # <<>>
          /\ nStart >= 1
          /\ tradieData \in Tradies]_vars
  /\ [][taskSubmissions' # taskSubmissions =>
          /\ summaryRequests # <<>>
          /\ summaryOutcome' = "task"
          /\ tradieData \in Tradies
          /\ TwilioPhoneNumber(tradieData) = CalledNumber]_vars

\* C35 witness: one summarization request and, the summary parsed and the
\* tradie having a routing number, one task submitted.
C35_Witness ==
  /\ Len(summaryRequests) = 1
  /\ taskSubmissions = 1
  /\ summaryOutcome = "task"
====
